---- MODULE Spec2Model ----
(***************************************************************************)
(* A model of the invoice tools: the invoice completion service            *)
(* (internal/invoice/completion.go), the amount validation                 *)
(* (AmountValidation), the ChatGPT reconciliation service (ReconcileAll)   *)
(* and the batch worker pool (cmd/datev-batch.go).                         *)
(*                                                                         *)
(* Every subsystem has its own specification over the shared variables:    *)
(*   SpecCompletion, SpecAmounts, SpecReconcile, SpecBatch.                *)
(*                                                                         *)
(* Conventions.  Go strings that the code inspects character by character  *)
(* (amounts, dates, currency codes, confidences) are sequences of          *)
(* one-character strings; strings the code only copies or compares with    *)
(* "" are TLA+ strings.  Amounts are int64 cents.  A time.Time date is a   *)
(* triple <<year, month, day>>; the zero time is <<1, 1, 1>>.  Confidence  *)
(* values (float32 in the code) are integers in hundredths: 0.8 is 80.     *)
(***************************************************************************)
EXTENDS Integers, Sequences, FiniteSets, TLC

VARIABLES
    \* ---- invoice completion (CompleteInvoiceWithConfidence) ----
    config,         \* CompletionConfig: RequireAllFields, MaxRetries
    invoice,        \* the caller's *models.Invoice (the record pointed to)
    cpc,            \* position inside CompleteInvoiceWithConfidence
    attempt,        \* the loop variable of extractInvoiceFromText
    lastErr,        \* lastErr of extractInvoiceFromText
    ctxCancelled,   \* whether ctx has been cancelled by the caller
    pdfReads,       \* number of io.ReadAll(pdfData) calls made
    ocrCalls,       \* number of ocrService.ProcessPDFWithMetadata calls made
    apiCalls,       \* number of openaiClient.CreateChatCompletion calls made
    validSeen,      \* an attempt has returned valid JSON with a valid type
    response,       \* the accepted ChatGPTResponse (NoResponse before)
    ret,            \* what CompleteInvoiceWithConfidence returned
    \* ---- amount validation (ValidateAndReconcileAmounts) ----
    avIn,           \* the arguments documentAI, chatGPT
    avOut,          \* the result after each stage of the call
    \* ---- reconciliation (ReconcileAll) ----
    rcIn,           \* invoices, transactions, cutoffDate
    rcPc,           \* position inside ReconcileAll
    rcI,            \* index of the invoice being processed
    usedTransactionIndices,
    rcResult,       \* the *ReconciliationResult being built
    rcLog,          \* per invoice: the shortlist and what was decided
    \* ---- batch worker pool (processPDFsInParallel) ----
    bIn,            \* pdfFiles and numWorkers
    bMain,          \* position of the calling goroutine
    bNext,          \* loop index of the calling goroutine
    jobs,           \* the buffered channel of WorkerJob
    jobsClosed,     \* close(jobs) has happened
    results,        \* the results slice
    processedCount, \* the progress counter
    mu,             \* holder of the mutex (0 = unlocked)
    workers,        \* per worker: position, current job, current result
    writes,         \* per index: the workers that wrote results[index]
    bRet,           \* what processPDFsInParallel returned (nil before)
    \* ---- parseAmount ----
    paIn,           \* the argument amountStr and the amount it spells
    paOut           \* what parseAmount returned

varsCompletion == <<config, invoice, cpc, attempt, lastErr, ctxCancelled,
                    pdfReads, ocrCalls, apiCalls, validSeen, response, ret>>
varsAmounts    == <<avIn, avOut>>
varsReconcile  == <<rcIn, rcPc, rcI, usedTransactionIndices, rcResult, rcLog>>
varsBatch      == <<bIn, bMain, bNext, jobs, jobsClosed, results,
                    processedCount, mu, workers, writes, bRet>>
varsParse      == <<paIn, paOut>>
vars == <<varsCompletion, varsAmounts, varsReconcile, varsBatch, varsParse>>

\* A value for "no record" (a nil pointer, an unset local).
Nil == [nil |-> TRUE]

(***************************************************************************)
(* Bounds of the model.                                                    *)
(***************************************************************************)
\* MaxRetries of the configuration ranges over 0..MaxRetriesBound.
MaxRetriesBound == 2
\* A generative response carries at most this many keys besides type and
\* type_confidence.
MaxRespFields == 1

(***************************************************************************)
(* Strings as character sequences.                                         *)
(***************************************************************************)
Digits == {"0", "1", "2", "3", "4", "5", "6", "7", "8", "9"}

DigitVal(c) ==
    CASE c = "0" -> 0 [] c = "1" -> 1 [] c = "2" -> 2 [] c = "3" -> 3
      [] c = "4" -> 4 [] c = "5" -> 5 [] c = "6" -> 6 [] c = "7" -> 7
      [] c = "8" -> 8 [] c = "9" -> 9

\* The value of a sequence of digits read as a decimal number.
RECURSIVE DigitsVal(_)
DigitsVal(s) ==
    IF s = <<>> THEN 0
    ELSE 10 * DigitsVal(SubSeq(s, 1, Len(s) - 1)) + DigitVal(s[Len(s)])

AllDigits(s) == \A i \in 1..Len(s) : s[i] \in Digits

Pow10(n) == CASE n = 0 -> 1 [] n = 1 -> 10 [] n = 2 -> 100 [] n = 3 -> 1000
              [] n = 4 -> 10000 [] OTHER -> 100000

\* strings.Contains(s, c) for a one-character c.
StrContains(s, c) == \E i \in 1..Len(s) : s[i] = c

\* Whether s has prefix p.
HasPrefix(s, p) == Len(s) >= Len(p) /\ SubSeq(s, 1, Len(p)) = p

\* strings.ReplaceAll(s, old, new) for a non-empty old.
RECURSIVE ReplaceAll(_, _, _)
ReplaceAll(s, old, new) ==
    IF s = <<>> THEN <<>>
    ELSE IF HasPrefix(s, old)
         THEN new \o ReplaceAll(SubSeq(s, Len(old) + 1, Len(s)), old, new)
         ELSE <<s[1]>> \o ReplaceAll(Tail(s), old, new)

\* strings.TrimSpace(s).
RECURSIVE TrimLeft(_)
TrimLeft(s) == IF s # <<>> /\ s[1] = " " THEN TrimLeft(Tail(s)) ELSE s
RECURSIVE TrimRight(_)
TrimRight(s) ==
    IF s # <<>> /\ s[Len(s)] = " " THEN TrimRight(SubSeq(s, 1, Len(s) - 1)) ELSE s
TrimSpace(s) == TrimRight(TrimLeft(s))

\* Position of the first c in s (0 when absent).
RECURSIVE IndexOf(_, _)
IndexOf(s, c) ==
    IF s = <<>> THEN 0
    ELSE IF s[1] = c THEN 1
    ELSE LET r == IndexOf(Tail(s), c) IN IF r = 0 THEN 0 ELSE r + 1

\* Number of occurrences of c in s.
RECURSIVE CountOf(_, _)
CountOf(s, c) ==
    IF s = <<>> THEN 0
    ELSE (IF s[1] = c THEN 1 ELSE 0) + CountOf(Tail(s), c)


(***************************************************************************)
(* strconv.ParseFloat on a cleaned string: an optional sign, digits with   *)
(* at most one decimal point, at least one digit.  (Exponents, hex floats, *)
(* "inf" and "nan" are outside the alphabet of the model's inputs.)        *)
(* The result is the sign, the digits read as an integer and the number of *)
(* digits after the point: the value is mant / 10^dec.                     *)
(***************************************************************************)
ParseFloat(s) ==
    LET signed == s # <<>> /\ s[1] \in {"-", "+"}
        body   == IF signed THEN Tail(s) ELSE s
        dot    == IndexOf(body, ".")
        intp   == IF dot = 0 THEN body ELSE SubSeq(body, 1, dot - 1)
        frac   == IF dot = 0 THEN <<>> ELSE SubSeq(body, dot + 1, Len(body))
    IN  IF AllDigits(intp) /\ AllDigits(frac) /\ Len(intp) + Len(frac) > 0
        THEN [ok |-> TRUE, neg |-> signed /\ s[1] = "-",
              mant |-> DigitsVal(intp \o frac), dec |-> Len(frac)]
        ELSE [ok |-> FALSE, neg |-> FALSE, mant |-> 0, dec |-> 0]

(***************************************************************************)
(* int64(amount * 100) for the float64 nearest to n/100, n >= 0: the       *)
(* product of the binary approximation by 100 falls just below n for the   *)
(* values listed here, and the conversion truncates.  The table is the     *)
(* IEEE-754 double result for every n in 0..1000; the larger amounts the   *)
(* model's inputs spell (4200, 100000, 119000, 123450, 123456, 150000)     *)
(* are exact.                                                              *)
(***************************************************************************)
ShortfallCents ==
    {29, 57, 58, 113, 114, 115, 116, 201, 203, 205, 207, 226, 228, 230, 232,
     251, 253, 255, 402, 406, 410, 414, 427, 431, 435, 439, 452, 456, 460,
     464, 477, 481, 485, 489, 502, 506, 510, 803, 804, 812, 820, 828, 829,
     837, 845, 853, 854, 862, 870, 878, 879, 887, 895, 903, 904, 912, 920,
     928, 929, 937, 945, 953, 954, 962, 970, 978, 979, 987, 995}

TruncTimes100(n) == IF n \in ShortfallCents THEN n - 1 ELSE n

\* int64(amount * 100) for a parsed float: truncation toward zero.
FloatToCents(f) ==
    LET scaled == f.mant * 100
        q      == scaled \div Pow10(f.dec)
        r      == scaled % Pow10(f.dec)
        mag    == IF r = 0 THEN TruncTimes100(q) ELSE q
    IN  IF f.neg THEN 0 - mag ELSE mag

EUR == <<"E", "U", "R">>
USD == <<"U", "S", "D">>

\* The single element of a one-element set (used to evaluate a value once).
The(S) == CHOOSE e \in S : TRUE

\* The cleaning of parseAmount: TrimSpace, then " ", EUR signs and codes
\* removed.
CleanAmount(amountStr) ==
    ReplaceAll(ReplaceAll(ReplaceAll(ReplaceAll(ReplaceAll(
        TrimSpace(amountStr), <<" ">>, <<>>), <<"€">>, <<>>), <<"$">>, <<>>),
        EUR, <<>>), USD, <<>>)

\* "Handle German number format": with both separators the dots go and the
\* comma becomes the point; a single comma followed by at most two
\* characters becomes the point.
GermanFormat(cleaned) ==
    IF StrContains(cleaned, ",")
    THEN IF StrContains(cleaned, ".")
         THEN ReplaceAll(ReplaceAll(cleaned, <<".">>, <<>>), <<",">>, <<".">>)
         ELSE IF CountOf(cleaned, ",") = 1
                 /\ Len(cleaned) - IndexOf(cleaned, ",") <= 2
              THEN ReplaceAll(cleaned, <<",">>, <<".">>)
              ELSE cleaned
    ELSE cleaned

\* parseAmount: the cleaning, the separator heuristics, ParseFloat and the
\* conversion to cents.  [ok, val]: ok = FALSE is the returned error.
parseAmount(amountStr) ==
    The({The({The({IF f.ok THEN [ok |-> TRUE, val |-> FloatToCents(f)]
                   ELSE [ok |-> FALSE, val |-> 0] :
                   f \in {ParseFloat(cleaned)}}) :
              cleaned \in {GermanFormat(c)}}) :
         c \in {CleanAmount(amountStr)}})

(***************************************************************************)
(* time.Time values and time.Parse("2006-01-02", s).                       *)
(***************************************************************************)
ZeroTime == <<1, 1, 1>>
IsZero(t) == t = ZeroTime

IsLeap(y) == (y % 4 = 0 /\ y % 100 # 0) \/ y % 400 = 0
DaysIn(y, m) ==
    IF m = 2 THEN (IF IsLeap(y) THEN 29 ELSE 28)
    ELSE IF m \in {4, 6, 9, 11} THEN 30 ELSE 31

\* Layout "2006-01-02": four digits, "-", two digits, "-", two digits, and
\* a month and a day in range.  [ok, date].
ParseISODate(s) ==
    LET shape == /\ Len(s) = 10
                 /\ s[5] = "-" /\ s[8] = "-"
                 /\ AllDigits(SubSeq(s, 1, 4))
                 /\ AllDigits(SubSeq(s, 6, 7))
                 /\ AllDigits(SubSeq(s, 9, 10))
        y == DigitsVal(SubSeq(s, 1, 4))
        m == DigitsVal(SubSeq(s, 6, 7))
        d == DigitsVal(SubSeq(s, 9, 10))
    IN  IF shape /\ m \in 1..12 /\ d >= 1 /\ d <= DaysIn(y, m)
        THEN [ok |-> TRUE, date |-> <<y, m, d>>]
        ELSE [ok |-> FALSE, date |-> ZeroTime]

(***************************************************************************)
(* normalizeCurrency.                                                      *)
(***************************************************************************)
LowerLetters == <<"a", "b", "c", "d", "e", "f", "g", "h", "i", "j", "k", "l",
                  "m", "n", "o", "p", "q", "r", "s", "t", "u", "v", "w", "x",
                  "y", "z">>
UpperLetters == <<"A", "B", "C", "D", "E", "F", "G", "H", "I", "J", "K", "L",
                  "M", "N", "O", "P", "Q", "R", "S", "T", "U", "V", "W", "X",
                  "Y", "Z">>
ToUpperChar(c) ==
    LET i == IndexOf(LowerLetters, c) IN IF i = 0 THEN c ELSE UpperLetters[i]
ToUpper(s) == [i \in 1..Len(s) |-> ToUpperChar(s[i])]

\* len(s) in Go counts bytes of the UTF-8 encoding.
RECURSIVE ByteLen(_)
ByteLen(s) ==
    IF s = <<>> THEN 0
    ELSE (IF s[1] = "€" THEN 3 ELSE IF s[1] \in {"£", "¥"} THEN 2 ELSE 1)
         + ByteLen(Tail(s))

normalizeCurrency(currency) ==
    IF currency = <<>> THEN EUR
    ELSE LET normalized == ToUpper(TrimSpace(currency)) IN
         IF normalized \in {<<"€">>, <<"E", "U", "R", "O">>,
                            <<"E", "U", "R", "O", "S">>, EUR}
         THEN EUR
         ELSE IF normalized \in {<<"$">>, <<"D", "O", "L", "L", "A", "R">>,
                                 <<"D", "O", "L", "L", "A", "R", "S">>, USD,
                                 <<"U", "S", "$">>}
         THEN USD
         ELSE IF normalized \in {<<"£">>, <<"P", "O", "U", "N", "D">>,
                                 <<"P", "O", "U", "N", "D", "S">>,
                                 <<"G", "B", "P">>}
         THEN <<"G", "B", "P">>
         ELSE IF normalized \in {<<"¥">>, <<"Y", "E", "N">>, <<"J", "P", "Y">>}
         THEN <<"J", "P", "Y">>
         ELSE IF normalized \in {<<"C", "H", "F">>,
                                 <<"F", "R", "A", "N", "K", "E", "N">>,
                                 <<"S", "W", "I", "S", "S", " ", "F", "R", "A",
                                   "N", "C">>}
         THEN <<"C", "H", "F">>
         ELSE IF ByteLen(normalized) = 3 THEN normalized ELSE EUR


(***************************************************************************)
(* Invoice completion: ValidateInvoice.                                    *)
(***************************************************************************)
\* contains(slice, item)
contains(slice, item) == \E i \in 1..Len(slice) : slice[i] = item

ValidType(t) == t = "PAYABLE" \/ t = "RECEIVABLE"

\* A validation that asks for the customer under either policy.
MissingFieldsCustomerAlways(inv, requireAll) ==
       (IF inv.InvoiceNumber = "" THEN <<"invoice_number">> ELSE <<>>)
    \o (IF inv.Vendor = "" THEN <<"vendor">> ELSE <<>>)
    \o (IF inv.Type = "" \/ ~ValidType(inv.Type) THEN <<"type">> ELSE <<>>)
    \o (IF IsZero(inv.IssueDate) THEN <<"issue_date">> ELSE <<>>)
    \o (IF inv.GrossAmount <= 0 THEN <<"gross_amount">> ELSE <<>>)
    \o (IF inv.Currency = <<>> THEN <<"currency">> ELSE <<>>)
    \o (IF inv.Customer = "" THEN <<"customer">> ELSE <<>>)
    \o (IF IsZero(inv.DueDate) /\ requireAll THEN <<"due_date">> ELSE <<>>)
    \o (IF inv.NetAmount <= 0 /\ requireAll THEN <<"net_amount">> ELSE <<>>)

\* A validation that also asks for VAT amount, reference and description.
MissingFieldsWithOptional(inv, requireAll) ==
       (IF inv.InvoiceNumber = "" THEN <<"invoice_number">> ELSE <<>>)
    \o (IF inv.Vendor = "" THEN <<"vendor">> ELSE <<>>)
    \o (IF inv.Type = "" \/ ~ValidType(inv.Type) THEN <<"type">> ELSE <<>>)
    \o (IF IsZero(inv.IssueDate) THEN <<"issue_date">> ELSE <<>>)
    \o (IF inv.GrossAmount <= 0 THEN <<"gross_amount">> ELSE <<>>)
    \o (IF inv.Currency = <<>> THEN <<"currency">> ELSE <<>>)
    \o (IF inv.Customer = "" /\ requireAll THEN <<"customer">> ELSE <<>>)
    \o (IF IsZero(inv.DueDate) /\ requireAll THEN <<"due_date">> ELSE <<>>)
    \o (IF inv.NetAmount <= 0 /\ requireAll THEN <<"net_amount">> ELSE <<>>)
    \o (IF inv.VATAmount <= 0 THEN <<"vat_amount">> ELSE <<>>)
    \o (IF inv.Reference = "" THEN <<"reference">> ELSE <<>>)
    \o (IF inv.Description = "" THEN <<"description">> ELSE <<>>)

\* The missingFields slice ValidateInvoice builds, in the order of its
\* append calls.
MissingFields(inv, requireAll) ==
       (IF inv.InvoiceNumber = "" THEN <<"invoice_number">> ELSE <<>>)
    \o (IF inv.Vendor = "" THEN <<"vendor">> ELSE <<>>)
    \o (IF inv.Type = "" \/ ~ValidType(inv.Type) THEN <<"type">> ELSE <<>>)
    \o (IF IsZero(inv.IssueDate) THEN <<"issue_date">> ELSE <<>>)
    \o (IF inv.GrossAmount <= 0 THEN <<"gross_amount">> ELSE <<>>)
    \o (IF inv.Currency = <<>> THEN <<"currency">> ELSE <<>>)
    \o (IF inv.Customer = "" /\ requireAll THEN <<"customer">> ELSE <<>>)
    \o (IF IsZero(inv.DueDate) /\ requireAll THEN <<"due_date">> ELSE <<>>)
    \o (IF inv.NetAmount <= 0 /\ requireAll THEN <<"net_amount">> ELSE <<>>)

\* ValidateInvoice: (len(missingFields) == 0, missingFields).
ValidateInvoice(inv, requireAll) ==
    LET missing == MissingFields(inv, requireAll)
    IN  [isValid |-> Len(missing) = 0, missingFields |-> missing]

(***************************************************************************)
(* The generative response.  A JSON value of the decoded                   *)
(* map[string]interface{} is [t |-> "absent"] (no such key),               *)
(* [t |-> "null"], [t |-> "string", v |-> s], [t |-> "number", v |-> n]    *)
(* (n in tenths) or [t |-> "bool", v |-> b].                               *)
(***************************************************************************)
Absent == [t |-> "absent"]
JNull  == [t |-> "null"]
JStr(s) == [t |-> "string", v |-> s]
JNum(n) == [t |-> "number", v |-> n]
JBool(b) == [t |-> "bool", v |-> b]

\* Keys whose string values the model holds as character sequences.
SeqKeys == {"type_confidence", "issue_date", "due_date", "net_amount",
            "vat_amount", "gross_amount", "currency"}

\* getString(m, key): the value when it is a JSON string, "" otherwise.
getString(m, key) ==
    IF m[key].t = "string" THEN m[key].v
    ELSE IF key \in SeqKeys THEN <<>> ELSE ""

\* fmt.Sprintf("%.1f", v) for v = n/10, 0 <= n.
FormatOneDecimal(n) ==
    LET digit(d) == CHOOSE c \in Digits : DigitVal(c) = d
        RECURSIVE ints(_)
        ints(k) == IF k < 10 THEN <<digit(k)>> ELSE ints(k \div 10) \o <<digit(k % 10)>>
    IN  ints(n \div 10) \o <<".", digit(n % 10)>>

\* The switch on rawResponse["type_confidence"].
DecodeTypeConfidence(m) ==
    LET conf == m["type_confidence"] IN
    IF conf.t \in {"absent", "null"} THEN <<>>
    ELSE IF conf.t = "string" THEN conf.v
    ELSE IF conf.t = "number" THEN FormatOneDecimal(conf.v)
    ELSE <<"0", ".", "5">>

\* The ChatGPTResponse built from rawResponse.
DecodeResponse(m) ==
    [Type              |-> getString(m, "type"),
     TypeConfidence    |-> DecodeTypeConfidence(m),
     TypeReasoning     |-> getString(m, "type_reasoning"),
     AccountingSummary |-> getString(m, "accounting_summary"),
     Vendor            |-> getString(m, "vendor"),
     Customer          |-> getString(m, "customer"),
     InvoiceNumber     |-> getString(m, "invoice_number"),
     IssueDate         |-> getString(m, "issue_date"),
     DueDate           |-> getString(m, "due_date"),
     NetAmount         |-> getString(m, "net_amount"),
     VATAmount         |-> getString(m, "vat_amount"),
     GrossAmount       |-> getString(m, "gross_amount"),
     Currency          |-> getString(m, "currency"),
     Reference         |-> getString(m, "reference"),
     Description       |-> getString(m, "description")]

\* The type check of an attempt: true when the attempt must be retried.
TypeRejected(resp) == resp.Type = "" \/ ~ValidType(resp.Type)

\* float32(conf) of strconv.ParseFloat(s, 32), in hundredths; 50 (0.5) when
\* the string does not parse.
ParseConfidence(s) ==
    LET f == ParseFloat(s)
        mag == (f.mant * 100) \div Pow10(f.dec)
    IN  IF f.ok THEN (IF f.neg THEN 0 - mag ELSE mag) ELSE 50

(***************************************************************************)
(* mergeCompletionResults.  Every statement of the function reads and      *)
(* writes one field of the invoice and one key of the confidence map, so   *)
(* the merged invoice is given field by field, and the confidence map by   *)
(* the keys the statements set.                                            *)
(***************************************************************************)
\* A text statement that does not consult missingFields.
TextTakenIgnoringMissing(missing, key, value) == value # ""

\* The guard of a text statement:
\*   if contains(missingFields, key) && response.F != ""
TextTaken(missing, key, value) == contains(missing, key) /\ value # ""

\* A date statement that takes whatever time.Parse returns.
DateTakenUnparsed(missing, key, value) == contains(missing, key) /\ value # <<>>

\* The guard of a date statement, with the inner err == nil of time.Parse.
DateTaken(missing, key, value) ==
    contains(missing, key) /\ value # <<>> /\ ParseISODate(value).ok

\* An amount statement that does not consult missingFields.
AmountTakenIgnoringMissing(missing, key, value) ==
    value # <<>> /\ parseAmount(value).ok

\* The guard of an amount statement, with the inner err == nil of parseAmount.
AmountTaken(missing, key, value) ==
    contains(missing, key) /\ value # <<>> /\ parseAmount(value).ok

\* The guard of the currency statement.
CurrencyTaken(missing, value) == contains(missing, "currency") /\ value # <<>>

\* The guard of the accounting-summary statement ("always apply if provided").
SummaryTaken(value) == value # ""

\* The invoice after the statements of mergeCompletionResults; now is
\* time.Now().
MergedInvoice(inv, resp, missing, now) ==
    [ID |-> inv.ID,
     PaymentDate |-> inv.PaymentDate,
     IsPaid |-> inv.IsPaid,
     CreatedAt |-> inv.CreatedAt,
     InvoiceNumber |->
        IF TextTaken(missing, "invoice_number", resp.InvoiceNumber)
        THEN resp.InvoiceNumber ELSE inv.InvoiceNumber,
     Type |->
        IF TextTaken(missing, "type", resp.Type) THEN resp.Type ELSE inv.Type,
     Vendor |->
        IF TextTaken(missing, "vendor", resp.Vendor) THEN resp.Vendor ELSE inv.Vendor,
     Customer |->
        IF TextTaken(missing, "customer", resp.Customer)
        THEN resp.Customer ELSE inv.Customer,
     IssueDate |->
        IF DateTaken(missing, "issue_date", resp.IssueDate)
        THEN ParseISODate(resp.IssueDate).date ELSE inv.IssueDate,
     DueDate |->
        IF DateTaken(missing, "due_date", resp.DueDate)
        THEN ParseISODate(resp.DueDate).date ELSE inv.DueDate,
     NetAmount |->
        IF AmountTaken(missing, "net_amount", resp.NetAmount)
        THEN parseAmount(resp.NetAmount).val ELSE inv.NetAmount,
     VATAmount |->
        IF AmountTaken(missing, "vat_amount", resp.VATAmount)
        THEN parseAmount(resp.VATAmount).val ELSE inv.VATAmount,
     GrossAmount |->
        IF AmountTaken(missing, "gross_amount", resp.GrossAmount)
        THEN parseAmount(resp.GrossAmount).val ELSE inv.GrossAmount,
     Currency |->
        IF CurrencyTaken(missing, resp.Currency)
        THEN normalizeCurrency(resp.Currency) ELSE inv.Currency,
     Reference |->
        IF TextTaken(missing, "reference", resp.Reference)
        THEN resp.Reference ELSE inv.Reference,
     Description |->
        IF TextTaken(missing, "description", resp.Description)
        THEN resp.Description ELSE inv.Description,
     AccountingSummary |->
        IF SummaryTaken(resp.AccountingSummary)
        THEN resp.AccountingSummary ELSE inv.AccountingSummary,
     UpdatedAt |-> now]

\* A confidence map with a key for every value the response supplies.
ConfidenceKeysIgnoringMissing(resp, missing) ==
    {k \in {"type", "vendor", "customer", "invoice_number", "accounting_summary"} :
       CASE k = "type"           -> resp.Type # ""
         [] k = "vendor"         -> resp.Vendor # ""
         [] k = "customer"       -> resp.Customer # ""
         [] k = "invoice_number" -> resp.InvoiceNumber # ""
         [] k = "accounting_summary" -> resp.AccountingSummary # ""}

\* The keys mergeCompletionResults sets in the confidence map.
ConfidenceKeys(resp, missing) ==
    {k \in {"type", "vendor", "customer", "invoice_number", "issue_date",
            "due_date", "net_amount", "vat_amount", "gross_amount", "currency",
            "reference", "description", "accounting_summary"} :
       CASE k = "type"           -> TextTaken(missing, k, resp.Type)
         [] k = "vendor"         -> TextTaken(missing, k, resp.Vendor)
         [] k = "customer"       -> TextTaken(missing, k, resp.Customer)
         [] k = "invoice_number" -> TextTaken(missing, k, resp.InvoiceNumber)
         [] k = "issue_date"     -> DateTaken(missing, k, resp.IssueDate)
         [] k = "due_date"       -> DateTaken(missing, k, resp.DueDate)
         [] k = "net_amount"     -> AmountTaken(missing, k, resp.NetAmount)
         [] k = "vat_amount"     -> AmountTaken(missing, k, resp.VATAmount)
         [] k = "gross_amount"   -> AmountTaken(missing, k, resp.GrossAmount)
         [] k = "currency"       -> CurrencyTaken(missing, resp.Currency)
         [] k = "reference"      -> TextTaken(missing, k, resp.Reference)
         [] k = "description"    -> TextTaken(missing, k, resp.Description)
         [] k = "accounting_summary" -> SummaryTaken(resp.AccountingSummary)}

\* The value each statement stores under its key.
ConfidenceOf(k, resp) ==
    CASE k = "type" -> ParseConfidence(resp.TypeConfidence)
      [] k \in {"invoice_number", "currency"} -> 90
      [] k \in {"net_amount", "vat_amount", "gross_amount"} -> 70
      [] OTHER -> 80

\* The confidence map after mergeCompletionResults (it starts empty).
MergedConfidence(resp, missing) ==
    [k \in ConfidenceKeys(resp, missing) |-> ConfidenceOf(k, resp)]

EmptyMap == [k \in {} |-> 0]

(***************************************************************************)
(* validateCompletedInvoice and calculateMissingAmounts (completion.go).   *)
(***************************************************************************)
\* The three statements of calculateMissingAmounts, in order, on the
\* amounts <<net, vat, gross>>.
CalcGross(a) == IF a[1] > 0 /\ a[2] > 0 /\ a[3] = 0 THEN <<a[1], a[2], a[1] + a[2]>> ELSE a
CalcNet(a)   == IF a[3] > 0 /\ a[2] > 0 /\ a[1] = 0 THEN <<a[3] - a[2], a[2], a[3]>> ELSE a
CalcVAT(a)   == IF a[3] > 0 /\ a[1] > 0 /\ a[2] = 0 THEN <<a[1], a[3] - a[1], a[3]>> ELSE a

CalculatedAmounts(net, vat, gross) ==
    The({The({CalcVAT(b) : b \in {CalcNet(a)}}) : a \in {CalcGross(<<net, vat, gross>>)}})

\* calculateMissingAmounts(invoice) of the completion service.
calculateMissingAmountsC(inv) ==
    The({[inv EXCEPT !.NetAmount = a[1], !.VATAmount = a[2], !.GrossAmount = a[3]] :
           a \in {CalculatedAmounts(inv.NetAmount, inv.VATAmount, inv.GrossAmount)}})

\* A validation that also rejects a negative gross or net amount.
CompletedInvalidRejectingNegative(inv) ==
    \/ ~ValidType(inv.Type)
    \/ (inv.GrossAmount = 0 /\ inv.NetAmount = 0 /\ inv.VATAmount = 0)
    \/ inv.GrossAmount < 0
    \/ inv.NetAmount < 0

\* The two checks that make validateCompletedInvoice return an error.
CompletedInvalid(inv) ==
    \/ ~ValidType(inv.Type)
    \/ (inv.GrossAmount = 0 /\ inv.NetAmount = 0 /\ inv.VATAmount = 0)

(***************************************************************************)
(* buildCompletionPrompt: the user prompt, as the hints it carries and the *)
(* keys of the JSON schema it lists, in the order they are written.        *)
(***************************************************************************)
TypeTriple == <<"type", "type_confidence", "type_reasoning">>

\* The cases of the switch in the loop over missingFields.
SchemaCases == {"vendor", "customer", "invoice_number", "issue_date",
                "due_date", "net_amount", "vat_amount", "gross_amount",
                "currency", "reference", "description"}

buildCompletionPrompt(missingFields, partialInvoice) ==
    [vendorHint     |-> partialInvoice.Vendor # "" /\ contains(missingFields, "type"),
     customerHint   |-> partialInvoice.Customer # "" /\ contains(missingFields, "type"),
     companyContext |-> contains(missingFields, "type"),
     schema         |->    (IF contains(missingFields, "type") THEN TypeTriple ELSE <<>>)
                        \o <<"accounting_summary">>
                        \o SelectSeq(missingFields, LAMBDA field : field \in SchemaCases)]

(***************************************************************************)
(* The inputs of the completion model.                                     *)
(***************************************************************************)
\* An invoice in which every field is set.
CompleteTemplate ==
    [ID |-> "id-1", PaymentDate |-> <<2024, 3, 5>>, IsPaid |-> TRUE,
     CreatedAt |-> "t0", InvoiceNumber |-> "INV-12345", Type |-> "PAYABLE", Vendor |-> "Acme GmbH",
     Customer |-> "Kunde AG", IssueDate |-> <<2024, 2, 1>>,
     DueDate |-> <<2024, 3, 1>>, NetAmount |-> 126050, VATAmount |-> 23950,
     GrossAmount |-> 150000, Currency |-> EUR, Reference |-> "PO-7",
     Description |-> "Lizenz", AccountingSummary |-> "Altbestand",
     UpdatedAt |-> "t0"]

\* An invoice of which only gross amount, currency and number are known.
SparseTemplate ==
    [ID |-> "id-2", PaymentDate |-> ZeroTime, IsPaid |-> FALSE,
     CreatedAt |-> "t0", InvoiceNumber |-> "INV-12345", Type |-> "", Vendor |-> "",
     Customer |-> "", IssueDate |-> ZeroTime, DueDate |-> ZeroTime,
     NetAmount |-> 0, VATAmount |-> 0, GrossAmount |-> 150000,
     Currency |-> EUR, Reference |-> "", Description |-> "",
     AccountingSummary |-> "", UpdatedAt |-> "t0"]

\* The fields in which the input invoices vary.
InvoiceFields == {"InvoiceNumber", "Type", "Vendor", "Customer", "IssueDate",
                  "DueDate", "NetAmount", "VATAmount", "GrossAmount",
                  "Currency", "Reference", "Description", "AccountingSummary"}

FieldDomain ==
    [f \in InvoiceFields |->
    CASE f = "InvoiceNumber"     -> {"", "INV-12345"}
      [] f = "Type"              -> {"", "PAYABLE", "RECEIVABLE", "INVOICE"}
      [] f = "Vendor"            -> {"", "Acme GmbH"}
      [] f = "Customer"          -> {"", "Kunde AG"}
      [] f = "IssueDate"         -> {ZeroTime, <<2024, 2, 1>>}
      [] f = "DueDate"           -> {ZeroTime, <<2024, 3, 1>>}
      [] f = "NetAmount"         -> {-5000, 0, 126050}
      [] f = "VATAmount"         -> {-950, 0, 23950}
      [] f = "GrossAmount"       -> {-5950, 0, 150000}
      [] f = "Currency"          -> {<<>>, EUR}
      [] f = "Reference"         -> {"", "PO-7"}
      [] f = "Description"       -> {"", "Lizenz"}
      [] f = "AccountingSummary" -> {"", "Altbestand"}]

\* The records that differ from base in the fields fs only, each taking a
\* value of dom(field).
RECURSIVE Variants(_, _, _)
Variants(base, fs, dom) ==
    IF fs = {} THEN {base}
    ELSE LET f == CHOOSE x \in fs : TRUE
         IN  UNION {Variants([base EXCEPT ![f] = v], fs \ {f}, dom) : v \in dom[f]}

\* An invoice that lacks only customer and due date.
NoCustomerNoDueDate ==
    [CompleteTemplate EXCEPT !.Customer = "", !.DueDate = ZeroTime]

\* The input invoices: the two templates, every record that differs from
\* one of them in a single field, and the invoice without customer and due
\* date.
InputInvoices ==
    UNION {Variants(t, {f}, FieldDomain) :
             t \in {CompleteTemplate, SparseTemplate}, f \in InvoiceFields}
    \cup {NoCustomerNoDueDate}

\* time.Now() at the merge.
Now == "now"

\* The keys a response may carry besides type.
OptionalKeys == {"type_confidence", "type_reasoning", "accounting_summary",
                 "vendor", "customer", "invoice_number", "issue_date",
                 "due_date", "net_amount", "vat_amount", "gross_amount",
                 "currency", "reference", "description"}

\* The values a present key takes in the model's responses.
KeyDomain ==
    [k \in OptionalKeys |->
    CASE k = "type_confidence" ->
           {JStr(<<"0", ".", "9">>), JStr(<<"h", "o", "c", "h">>), JNum(7),
            JBool(TRUE)}
      [] k = "type_reasoning" -> {JStr("Bill To")}
      [] k = "accounting_summary" -> {JStr("IT-Hardware")}
      [] k = "vendor" -> {JStr("Other GmbH"), JNum(1)}
      [] k = "customer" -> {JStr("Other AG")}
      [] k = "invoice_number" -> {JStr("RE-9")}
      [] k = "issue_date" ->
           {JStr(<<"2", "0", "2", "4", "-", "0", "3", "-", "0", "1">>),
            JStr(<<"0", "1", ".", "0", "3", ".", "2", "0", "2", "4">>),
            JStr(<<"0", "0", "0", "1", "-", "0", "1", "-", "0", "1">>)}
      [] k = "due_date" ->
           {JStr(<<"2", "0", "2", "4", "-", "0", "3", "-", "3", "1">>),
            JStr(<<"2", "0", "2", "4", "-", "0", "2", "-", "3", "0">>)}
      [] k = "net_amount" ->
           {JStr(<<"1", "0", "0", "0", ".", "0", "0">>), JStr(<<"a", "b", "c">>)}
      [] k = "vat_amount" -> {JStr(<<"1", "9", "0", ",", "0", "0">>)}
      [] k = "gross_amount" ->
           {JStr(<<"1", ".", "1", "9", "0", ",", "0", "0">>),
            JStr(<<"-", "4", "2", ".", "0", "0">>), JStr(<<"0">>),
            JStr(<<"n", "/", "a">>)}
      [] k = "currency" ->
           {JStr(<<"u", "s", "d">>), JStr(<<"b", "i", "t", "c", "o", "i", "n">>)}
      [] k = "reference" -> {JStr("PO-99")}
      [] k = "description" -> {JStr("Neu")}]

EmptyObject == [k \in OptionalKeys \cup {"type"} |-> Absent]

\* JSON objects with a valid type and at most MaxRespFields other keys, and
\* objects whose type is missing, not one of the two values, or not a string.
RawObjects ==
    UNION {Variants([EmptyObject EXCEPT !["type"] = JStr(t)], ks, KeyDomain) :
             t \in {"PAYABLE", "RECEIVABLE"},
             ks \in {x \in SUBSET OptionalKeys : Cardinality(x) <= MaxRespFields}}
    \cup {[EmptyObject EXCEPT !["type"] = v] : v \in {Absent, JStr("CREDIT"), JNum(1)}}

\* What one CreateChatCompletion call can produce: an error, a response
\* without choices, or the content of the first choice: text that is no
\* JSON, a JSON object inside a markdown code fence, or a JSON object.
ApiOutcomes ==
    {[kind |-> "error"], [kind |-> "nochoices"],
     [kind |-> "content", form |-> "garbage"]}
    \cup {[kind |-> "content", form |-> "fenced", obj |-> o] :
            o \in {[EmptyObject EXCEPT !["type"] = JStr("PAYABLE")]}}
    \cup {[kind |-> "content", form |-> "json", obj |-> o] : o \in RawObjects}

\* json.Unmarshal([]byte(content), &rawResponse): content that does not
\* start with a JSON value (free text, a ``` fence) is an error.
jsonUnmarshal(out) ==
    IF out.form = "json" THEN [ok |-> TRUE, map |-> out.obj]
    ELSE [ok |-> FALSE, map |-> EmptyObject]

\* The outcome of one iteration of the loop of extractInvoiceFromText:
\* lastErr of the iteration, "" when it returns the response.
AttemptError(out) ==
    IF out.kind = "error" THEN "api"
    ELSE IF out.kind = "nochoices" THEN "nochoices"
    ELSE IF ~jsonUnmarshal(out).ok THEN "json"
    ELSE IF TypeRejected(DecodeResponse(jsonUnmarshal(out).map)) THEN "type"
    ELSE ""

NoResponse == Nil

\* The return values (completed, confidence, err).  fromInput tells that
\* the returned pointer is the caller's own record.
Returned(inv, fromInput, confidence) ==
    [inv |-> inv, fromInput |-> fromInput, confidence |-> confidence, err |-> ""]
Failed(why) == [inv |-> Nil, fromInput |-> FALSE, confidence |-> Nil, err |-> why]
NotReturned == [inv |-> Nil, fromInput |-> FALSE, confidence |-> Nil, err |-> "pending"]


(***************************************************************************)
(* The subsystems at rest: a specification of one subsystem leaves the     *)
(* variables of the others at these values.                                *)
(***************************************************************************)
IdleCompletion ==
    /\ config = Nil /\ invoice = Nil /\ cpc = "idle" /\ attempt = 0
    /\ lastErr = "" /\ ctxCancelled = FALSE /\ pdfReads = 0 /\ ocrCalls = 0
    /\ apiCalls = 0 /\ validSeen = FALSE /\ response = Nil /\ ret = Nil
IdleAmounts == avIn = Nil /\ avOut = Nil
IdleReconcile ==
    /\ rcIn = Nil /\ rcPc = "idle" /\ rcI = 0 /\ usedTransactionIndices = {}
    /\ rcResult = Nil /\ rcLog = <<>>
IdleBatch ==
    /\ bIn = Nil /\ bMain = "idle" /\ bNext = 0 /\ jobs = <<>>
    /\ jobsClosed = FALSE /\ results = <<>> /\ processedCount = 0 /\ mu = 0
    /\ workers = <<>> /\ writes = <<>> /\ bRet = <<>>
IdleParse == paIn = Nil /\ paOut = Nil

(***************************************************************************)
(* CompleteInvoiceWithConfidence as a state machine.  The calls to the     *)
(* outside (io.ReadAll, the OCR service, the OpenAI client) are the steps. *)
(***************************************************************************)
InitCompletion ==
    /\ config \in [RequireAllFields : BOOLEAN, MaxRetries : 0..MaxRetriesBound]
    /\ invoice \in InputInvoices
    /\ cpc = "start"
    /\ attempt = 0
    /\ lastErr = ""
    /\ ctxCancelled = FALSE
    /\ pdfReads = 0 /\ ocrCalls = 0 /\ apiCalls = 0
    /\ validSeen = FALSE
    /\ response = NoResponse
    /\ ret = NotReturned
    /\ IdleAmounts /\ IdleReconcile /\ IdleBatch /\ IdleParse

\* A first step that goes on to the PDF whatever ValidateInvoice reports.
CheckCompleteAlwaysReads ==
    /\ cpc = "start"
    /\ cpc' = "read_pdf"
    /\ UNCHANGED <<config, invoice, attempt, lastErr, ctxCancelled, pdfReads,
                   ocrCalls, apiCalls, validSeen, response, ret>>
    /\ UNCHANGED <<varsAmounts, varsReconcile, varsBatch, varsParse>>

\* Step 1: ValidateInvoice, and the return of the caller's invoice when it
\* is complete.
CheckComplete ==
    /\ cpc = "start"
    /\ IF ValidateInvoice(invoice, config.RequireAllFields).isValid
       THEN /\ ret' = Returned(invoice, TRUE, EmptyMap)
            /\ cpc' = "done"
       ELSE /\ ret' = ret
            /\ cpc' = "read_pdf"
    /\ UNCHANGED <<config, invoice, attempt, lastErr, ctxCancelled, pdfReads,
                   ocrCalls, apiCalls, validSeen, response>>
    /\ UNCHANGED <<varsAmounts, varsReconcile, varsBatch, varsParse>>

\* Step 2: io.ReadAll(pdfData).
ReadPDF ==
    /\ cpc = "read_pdf"
    /\ pdfReads' = pdfReads + 1
    /\ \E ok \in BOOLEAN :
         IF ok THEN cpc' = "ocr" /\ ret' = ret
         ELSE cpc' = "done" /\ ret' = Failed("read_pdf")
    /\ UNCHANGED <<config, invoice, attempt, lastErr, ctxCancelled, ocrCalls,
                   apiCalls, validSeen, response>>
    /\ UNCHANGED <<varsAmounts, varsReconcile, varsBatch, varsParse>>

\* A text extraction that is tried a second time after a failure.
ExtractTextRetryingOnce ==
    /\ cpc = "ocr"
    /\ ocrCalls' = ocrCalls + 1
    /\ \E out \in {"error", "empty", "text"} :
         /\ ctxCancelled => out = "error"
         /\ IF out = "text"
            THEN cpc' = "extract" /\ attempt' = 1 /\ ret' = ret
            ELSE IF ocrCalls = 0
            THEN cpc' = "ocr" /\ attempt' = attempt /\ ret' = ret
            ELSE cpc' = "done" /\ attempt' = attempt /\ ret' = Failed("ocr_" \o out)
    /\ UNCHANGED <<config, invoice, lastErr, ctxCancelled, pdfReads, apiCalls,
                   validSeen, response>>
    /\ UNCHANGED <<varsAmounts, varsReconcile, varsBatch, varsParse>>

\* Step 3: ocrService.ProcessPDFWithMetadata(ctx, ...): an error, empty
\* text, or text.  A call made with a cancelled context returns an error.
\* On text, extractInvoiceFromText starts its loop with attempt = 1.
ExtractText ==
    /\ cpc = "ocr"
    /\ ocrCalls' = ocrCalls + 1
    /\ \E out \in {"error", "empty", "text"} :
         /\ ctxCancelled => out = "error"
         /\ IF out = "text"
            THEN cpc' = "extract" /\ attempt' = 1 /\ ret' = ret
            ELSE cpc' = "done" /\ attempt' = attempt /\ ret' = Failed("ocr_" \o out)
    /\ UNCHANGED <<config, invoice, lastErr, ctxCancelled, pdfReads, apiCalls,
                   validSeen, response>>
    /\ UNCHANGED <<varsAmounts, varsReconcile, varsBatch, varsParse>>

\* Steps 5 and 6 of CompleteInvoiceWithConfidence on the response resp:
\* the copy of the invoice, mergeCompletionResults, validateCompletedInvoice
\* (which ends with calculateMissingAmounts), and the return.
MergeAndValidate(inv, resp, requireAll) ==
    The({The({IF CompletedInvalid(merged) THEN Failed("validation")
              ELSE Returned(calculateMissingAmountsC(merged), FALSE,
                            MergedConfidence(resp, missing)) :
              merged \in {MergedInvoice(inv, resp, missing, Now)}}) :
         missing \in {MissingFields(inv, requireAll)}})

\* Steps 5 and 6 done on the caller's record instead of a copy.
InputMergedInPlace(inv, resp, requireAll) ==
    calculateMissingAmountsC(
        MergedInvoice(inv, resp, MissingFields(inv, requireAll), Now))

\* The caller's record *invoice after steps 5 and 6.  The merge and the
\* validation write through &completedInvoice, the copy that
\* `completedInvoice := *invoice` makes, so the record keeps its value.
InputAfterMerge(inv, resp, requireAll) == inv

\* A loop that allows one iteration too many.
LoopContinuesOneMore == attempt <= config.MaxRetries + 1

\* Whether the loop of extractInvoiceFromText goes on to an iteration.
LoopContinues == attempt <= config.MaxRetries

\* An iteration that returns the error of a failed attempt instead of
\* continuing.
AttemptAbortsOnError ==
    /\ cpc = "extract"
    /\ LoopContinues
    /\ apiCalls' = apiCalls + 1
    /\ \E out \in ApiOutcomes :
         /\ ctxCancelled => out.kind = "error"
         /\ IF AttemptError(out) # ""
            THEN /\ lastErr' = AttemptError(out)
                 /\ ret' = Failed("extract")
                 /\ cpc' = "done"
                 /\ UNCHANGED <<attempt, validSeen, response>>
            ELSE /\ validSeen' = TRUE
                 /\ \E resp \in {DecodeResponse(jsonUnmarshal(out).map)} :
                      /\ response' = resp
                      /\ ret' = MergeAndValidate(invoice, resp, config.RequireAllFields)
                 /\ cpc' = "done"
                 /\ UNCHANGED <<lastErr, attempt>>
    /\ UNCHANGED <<config, invoice, ctxCancelled, pdfReads, ocrCalls>>
    /\ UNCHANGED <<varsAmounts, varsReconcile, varsBatch, varsParse>>

\* One iteration of the loop of extractInvoiceFromText: the call of
\* CreateChatCompletion and what follows it.  A failed iteration sets
\* lastErr and continues; a successful one returns the response, and
\* CompleteInvoiceWithConfidence merges, validates and returns.
AttemptOn(out) ==
    /\ cpc = "extract"
    /\ LoopContinues
    /\ apiCalls' = apiCalls + 1
    /\ ctxCancelled => out.kind = "error"
    /\ IF AttemptError(out) # ""
       THEN /\ lastErr' = AttemptError(out)
            /\ attempt' = attempt + 1
            /\ UNCHANGED <<invoice, cpc, validSeen, response, ret>>
       ELSE /\ validSeen' = TRUE
            /\ \E resp \in {DecodeResponse(jsonUnmarshal(out).map)} :
                 /\ response' = resp
                 /\ ret' = MergeAndValidate(invoice, resp, config.RequireAllFields)
                 /\ invoice' = InputAfterMerge(invoice, resp, config.RequireAllFields)
            /\ cpc' = "done"
            /\ UNCHANGED <<lastErr, attempt>>
    /\ UNCHANGED <<config, ctxCancelled, pdfReads, ocrCalls>>
    /\ UNCHANGED <<varsAmounts, varsReconcile, varsBatch, varsParse>>

\* The iteration on whatever the call produces.
Attempt == \E out \in ApiOutcomes : AttemptOn(out)

\* The loop ends without a response: "all %d attempts failed".
Exhausted ==
    /\ cpc = "extract"
    /\ ~LoopContinues
    /\ ret' = Failed("extract")
    /\ cpc' = "done"
    /\ UNCHANGED <<config, invoice, attempt, lastErr, ctxCancelled, pdfReads,
                   ocrCalls, apiCalls, validSeen, response>>
    /\ UNCHANGED <<varsAmounts, varsReconcile, varsBatch, varsParse>>

\* The caller cancels ctx while the completion runs.
Cancel ==
    /\ cpc \notin {"done", "idle"}
    /\ ~ctxCancelled
    /\ ctxCancelled' = TRUE
    /\ UNCHANGED <<config, invoice, cpc, attempt, lastErr, pdfReads, ocrCalls,
                   apiCalls, validSeen, response, ret>>
    /\ UNCHANGED <<varsAmounts, varsReconcile, varsBatch, varsParse>>

NextCompletion ==
    \/ CheckComplete
    \/ ReadPDF
    \/ ExtractText
    \/ Attempt
    \/ Exhausted
    \/ Cancel

SpecCompletion == InitCompletion /\ [][NextCompletion]_vars

(***************************************************************************)
(* Properties of the completion.                                           *)
(***************************************************************************)
\* The zero value of a field of models.Invoice.
ZeroValue(f) ==
    CASE f \in {"IssueDate", "DueDate", "PaymentDate"} -> ZeroTime
      [] f \in {"NetAmount", "VATAmount", "GrossAmount"} -> 0
      [] f = "Currency" -> <<>>
      [] f = "IsPaid" -> FALSE
      [] OTHER -> ""

\* The name under which ValidateInvoice reports a field missing ("" for a
\* field it never reports).
FieldKey(f) ==
    CASE f = "InvoiceNumber" -> "invoice_number"
      [] f = "Vendor" -> "vendor"
      [] f = "Type" -> "type"
      [] f = "IssueDate" -> "issue_date"
      [] f = "GrossAmount" -> "gross_amount"
      [] f = "Currency" -> "currency"
      [] f = "Customer" -> "customer"
      [] f = "DueDate" -> "due_date"
      [] f = "NetAmount" -> "net_amount"
      [] OTHER -> ""

\* The completion has returned an invoice.
ReturnedInvoice == cpc = "done" /\ ret.err = ""

\* C1: a completion of an invoice that ValidateInvoice reports complete
\* reads no PDF, calls neither the OCR service nor the generative API, and
\* returns the caller's invoice, unchanged, with an empty confidence map and
\* no error.
C1_CompleteShortCircuit ==
    cpc = "done" /\ ValidateInvoice(invoice, config.RequireAllFields).isValid
        => /\ pdfReads = 0 /\ ocrCalls = 0 /\ apiCalls = 0
           /\ ret = Returned(invoice, TRUE, EmptyMap)
           /\ ret.err = ""

C1_Witness ==
    /\ cpc = "done"
    /\ ValidateInvoice(invoice, config.RequireAllFields).isValid
    /\ ret.fromInput
    /\ invoice.Customer = ""

\* C2: when the input invoice has a vendor, the completed invoice has the
\* same vendor, whatever vendor the response carries.
C2_VendorKept ==
    ReturnedInvoice /\ invoice.Vendor # "" => ret.inv.Vendor = invoice.Vendor

C2_Witness ==
    /\ ReturnedInvoice
    /\ invoice.Vendor # ""
    /\ response # NoResponse
    /\ response.Vendor # "" /\ response.Vendor # invoice.Vendor

\* C3 as claimed: every field (the update timestamp aside) that is non-empty
\* or non-zero in the input has the input's value in the completed invoice.
C3_AsClaimed ==
    ReturnedInvoice =>
        \A f \in DOMAIN invoice \ {"UpdatedAt"} :
            invoice[f] # ZeroValue(f) => ret.inv[f] = invoice[f]

\* C3, amended: the completion replaces only fields that ValidateInvoice
\* reported missing, the accounting summary and the update timestamp.  Every
\* other field that is non-empty / non-zero in the input and was not
\* reported missing has the input's value in the completed invoice; the
\* accounting summary is the response's whenever the response has one, and
\* the update timestamp is the time of the merge.
C3_PresentFieldsKept ==
    ReturnedInvoice =>
        /\ \A missing \in {MissingFields(invoice, config.RequireAllFields)} :
              \A f \in DOMAIN invoice \ {"AccountingSummary", "UpdatedAt"} :
                  invoice[f] # ZeroValue(f) /\ ~contains(missing, FieldKey(f))
                      => ret.inv[f] = invoice[f]
        /\ response # NoResponse /\ response.AccountingSummary # ""
              => ret.inv.AccountingSummary = response.AccountingSummary
        /\ response # NoResponse => ret.inv.UpdatedAt = Now

C3_Witness ==
    /\ ReturnedInvoice
    /\ response # NoResponse
    /\ invoice.GrossAmount > 0
    /\ response.GrossAmount # <<>>
    /\ parseAmount(response.GrossAmount).ok
    /\ parseAmount(response.GrossAmount).val # invoice.GrossAmount
    /\ ret.inv.GrossAmount = invoice.GrossAmount

\* C4: the generative API is called at most MaxRetries times in one
\* completion, and it is not called again once an attempt has returned valid
\* JSON with a Type of PAYABLE or RECEIVABLE.
C4_AtMostMaxRetriesCalls ==
    [][/\ apiCalls' <= config'.MaxRetries
       /\ validSeen => apiCalls' = apiCalls]_vars

C4_Witness ==
    /\ cpc = "done" /\ validSeen
    /\ apiCalls >= 2 /\ apiCalls = config.MaxRetries

\* C5: a failed attempt (API error, no choices, malformed JSON, a Type
\* outside PAYABLE and RECEIVABLE) does not end the completion: while fewer
\* than MaxRetries attempts have been made nothing is returned and another
\* attempt is made; a completion that ends inside the retry loop without a
\* valid response has made all MaxRetries attempts and returns an error and
\* no invoice.
C5_FailedAttemptsRetried ==
    /\ cpc = "extract" /\ apiCalls < config.MaxRetries
          => ret = NotReturned /\ ENABLED Attempt
    /\ cpc = "done" /\ attempt >= 1 /\ ~validSeen
          => /\ apiCalls = config.MaxRetries
             /\ ret.err = "extract" /\ ret.inv = Nil

C5_Witness ==
    /\ cpc = "done" /\ ~validSeen /\ ~ctxCancelled
    /\ apiCalls >= 2 /\ apiCalls = config.MaxRetries
    /\ lastErr = "type"
    /\ ret = Failed("extract")

\* C6 as claimed: once the context is cancelled no generative API call is
\* made and no retry is consumed.
C6_AsClaimed ==
    [][ctxCancelled => apiCalls' = apiCalls /\ attempt' = attempt]_vars

\* The fixed order in which ValidateInvoice reports fields.
ReportOrder == <<"invoice_number", "vendor", "type", "issue_date",
                 "gross_amount", "currency", "customer", "due_date",
                 "net_amount">>

\* Whether the field reported under key k fails its check on inv.
FailsCheck(inv, k, requireAll) ==
    CASE k = "invoice_number" -> inv.InvoiceNumber = ""
      [] k = "vendor"         -> inv.Vendor = ""
      [] k = "type"           -> inv.Type \notin {"PAYABLE", "RECEIVABLE"}
      [] k = "issue_date"     -> inv.IssueDate = ZeroTime
      [] k = "gross_amount"   -> ~(inv.GrossAmount > 0)
      [] k = "currency"       -> inv.Currency = <<>>
      [] k = "customer"       -> requireAll /\ inv.Customer = ""
      [] k = "due_date"       -> requireAll /\ inv.DueDate = ZeroTime
      [] k = "net_amount"     -> requireAll /\ ~(inv.NetAmount > 0)

\* C12: the call of ValidateInvoice that opens a completion reports, in
\* the fixed order, exactly the fields that fail their check (customer, due
\* date and net amount only under RequireAllFields); it reports the invoice
\* complete, and the completion returns at once, iff that list is empty;
\* the invoice without customer and due date only is complete under the
\* lenient policy and incomplete under the strict one; the invoice is not
\* modified.
C12_ValidateInvoice ==
    [][cpc = "start" /\ cpc' # "start" =>
         /\ ValidateInvoice(invoice, config.RequireAllFields).missingFields
               = SelectSeq(ReportOrder,
                           LAMBDA k : FailsCheck(invoice, k, config.RequireAllFields))
         /\ ValidateInvoice(invoice, config.RequireAllFields).isValid
               = (\A i \in 1..Len(ReportOrder) :
                     ~FailsCheck(invoice, ReportOrder[i], config.RequireAllFields))
         /\ (cpc' = "done")
               = ValidateInvoice(invoice, config.RequireAllFields).isValid
         /\ invoice = NoCustomerNoDueDate
               => (cpc' = "done") = ~config.RequireAllFields
         /\ invoice' = invoice]_vars

\* The invoice without customer and due date came back as complete under
\* the lenient policy.
C12_Witness ==
    /\ cpc = "done"
    /\ invoice = NoCustomerNoDueDate
    /\ ~config.RequireAllFields
    /\ ret = Returned(invoice, TRUE, EmptyMap)

\* The completion went through the merge: an attempt returned a response.
Merged == cpc = "done" /\ response # NoResponse

\* The invoice as mergeCompletionResults left it.
MergedRecord ==
    MergedInvoice(invoice, response,
                  MissingFields(invoice, config.RequireAllFields), Now)

\* C13: after the merge the completion fails exactly when the merged Type
\* is neither PAYABLE nor RECEIVABLE or net, tax and gross are all zero,
\* whatever the signs of the amounts; so an invoice returned after a merge
\* has a valid Type and a non-zero amount.
C13_PostValidation ==
    Merged =>
        /\ \A merged \in {MergedRecord} :
              (ret.err # "")
                 = \/ merged.Type \notin {"PAYABLE", "RECEIVABLE"}
                   \/ /\ merged.NetAmount = 0
                      /\ merged.VATAmount = 0
                      /\ merged.GrossAmount = 0
        /\ ret.err # "" => ret = Failed("validation")
        /\ ret.err = ""
              => /\ ret.inv.Type \in {"PAYABLE", "RECEIVABLE"}
                 /\ \/ ret.inv.NetAmount # 0
                    \/ ret.inv.VATAmount # 0
                    \/ ret.inv.GrossAmount # 0

\* A completion returned an invoice whose gross amount is negative.
C13_Witness ==
    /\ Merged
    /\ ret.err = ""
    /\ ret.inv.GrossAmount < 0
    /\ ~ret.fromInput

\* The text extraction failed: it returned an error or empty text.
ExtractionFailed == ret.err \in {"ocr_error", "ocr_empty"}

\* C18: the text extraction is called at most once in a completion; a
\* completion whose text extraction was called and that never entered the
\* retry loop has ended, with the extraction's failure as its error, no
\* invoice and no call of the generative API; and a completion that failed
\* on the text extraction called it exactly once.
C18_ExtractionFailFast ==
    /\ ocrCalls <= 1
    /\ ocrCalls = 1 /\ attempt = 0
          => /\ cpc = "done"
             /\ ExtractionFailed
             /\ ret.inv = Nil
             /\ apiCalls = 0
    /\ cpc = "done" /\ ExtractionFailed
          => ocrCalls = 1 /\ apiCalls = 0 /\ pdfReads = 1 /\ attempt = 0

\* The text extraction returned empty text to a completion that was allowed
\* retries of the generative API.
C18_Witness ==
    /\ cpc = "done"
    /\ ret = Failed("ocr_empty")
    /\ ocrCalls = 1
    /\ apiCalls = 0
    /\ config.MaxRetries >= 2

\* The prompt extractInvoiceFromText builds before its loop, from the
\* missing fields and the invoice CompleteInvoiceWithConfidence passes on.
prompt == buildCompletionPrompt(MissingFields(invoice, config.RequireAllFields), invoice)

\* The keys of a sequence.
Keys(seq) == {seq[i] : i \in 1..Len(seq)}

\* C19: whenever the generative API has been called, the schema of the
\* request lists the type, type_confidence and type_reasoning keys and the
\* accounting_summary key, whether or not the invoice's Type is set, and
\* besides these exactly the fields that are missing.
C19_AsClaimed ==
    apiCalls >= 1 =>
        /\ Keys(TypeTriple) \subseteq Keys(prompt.schema)
        /\ "accounting_summary" \in Keys(prompt.schema)
        /\ Keys(prompt.schema) \ (Keys(TypeTriple) \cup {"accounting_summary"})
             = Keys(MissingFields(invoice, config.RequireAllFields)) \ {"type"}

\* The responses whose content is a JSON object with a valid type, bare or
\* inside a markdown code fence, whatever else the object holds or lacks.
TypedResponses ==
    {out \in ApiOutcomes :
        /\ out.kind = "content"
        /\ out.form \in {"json", "fenced"}
        /\ out.obj["type"].t = "string"
        /\ ValidType(out.obj["type"].v)}

\* C20: an attempt whose response is a JSON object with a valid type, bare
\* or wrapped in a markdown code fence, with optional fields missing or of
\* the wrong JSON type, is accepted: the attempt ends the loop with that
\* response and is not counted as failed.
C20_AsClaimed ==
    [][\A out \in TypedResponses :
          AttemptOn(out) => /\ cpc' = "done"
                            /\ response' = DecodeResponse(out.obj)
                            /\ attempt' = attempt
                            /\ lastErr' = lastErr]_vars

\* The keys of the confidence map and the invoice field each stands for.
ConfidenceFields ==
    [type |-> "Type", vendor |-> "Vendor", customer |-> "Customer",
     invoice_number |-> "InvoiceNumber", issue_date |-> "IssueDate",
     due_date |-> "DueDate", net_amount |-> "NetAmount",
     vat_amount |-> "VATAmount", gross_amount |-> "GrossAmount",
     currency |-> "Currency", reference |-> "Reference",
     description |-> "Description", accounting_summary |-> "AccountingSummary"]

\* The completion returned an invoice built by a merge.
MergedReturned == ReturnedInvoice /\ response # NoResponse

\* C21 as claimed: the confidence map has an entry for every field whose
\* value the completion changed, and no entry for a field that was non-empty
\* or non-zero in the input.
C21_AsClaimed ==
    MergedReturned =>
        \A k \in DOMAIN ConfidenceFields :
            /\ ret.inv[ConfidenceFields[k]] # invoice[ConfidenceFields[k]]
                  => k \in DOMAIN ret.confidence
            /\ k \in DOMAIN ret.confidence
                  => invoice[ConfidenceFields[k]] = ZeroValue(ConfidenceFields[k])

\* C21, amended: the confidence map has an entry exactly for the fields that
\* the merge assigned from the response.  An entry other than the accounting
\* summary's is for a field that ValidateInvoice reported missing, so a
\* field that was set and not reported missing has none; the accounting
\* summary has an entry whenever the response supplies one; a field that
\* changed and has no entry is an amount that was zero after the merge and
\* was derived from the other two.
C21_ConfidenceEntries ==
    MergedReturned =>
        \A missing \in {MissingFields(invoice, config.RequireAllFields)} :
            /\ \A k \in DOMAIN ret.confidence :
                  /\ k \in DOMAIN ConfidenceFields
                  /\ k # "accounting_summary" => contains(missing, k)
                  /\ k \in {"type", "vendor", "customer", "invoice_number",
                            "accounting_summary"}
                        => /\ response[ConfidenceFields[k]] # ""
                           /\ ret.inv[ConfidenceFields[k]] = response[ConfidenceFields[k]]
            /\ \A k \in {"type", "vendor", "customer", "invoice_number"} :
                  contains(missing, k) /\ response[ConfidenceFields[k]] # ""
                      => k \in DOMAIN ret.confidence
            /\ ("accounting_summary" \in DOMAIN ret.confidence)
                  = (response.AccountingSummary # "")
            /\ \A k \in DOMAIN ConfidenceFields \ DOMAIN ret.confidence :
                  ret.inv[ConfidenceFields[k]] # invoice[ConfidenceFields[k]]
                      => /\ k \in {"net_amount", "vat_amount", "gross_amount"}
                         /\ MergedRecord[ConfidenceFields[k]] = 0
                         /\ ret.inv.NetAmount + ret.inv.VATAmount = ret.inv.GrossAmount

\* The response supplied the net amount of an invoice that had a gross
\* amount only: the net amount has an entry, the VAT amount was derived and
\* has none.
C21_Witness ==
    /\ MergedReturned
    /\ invoice.VATAmount = 0
    /\ ret.inv.VATAmount > 0
    /\ "net_amount" \in DOMAIN ret.confidence
    /\ "vat_amount" \notin DOMAIN ret.confidence

(***************************************************************************)
(* parseAmount on amounts written out: a call per written amount.          *)
(***************************************************************************)
\* The written amounts have a whole part of at most MaxWhole.
MaxWhole == 8

\* The decimal digits of n >= 0.
RECURSIVE Decimal(_)
Decimal(n) ==
    LET digit(d) == CHOOSE c \in Digits : DigitVal(c) = d
    IN  IF n < 10 THEN <<digit(n)>> ELSE Decimal(n \div 10) \o <<digit(n % 10)>>

TwoDigits(n) == IF n < 10 THEN <<"0">> \o Decimal(n) ELSE Decimal(n)

\* An amount of whole units and cents written with the decimal separator
\* sep, and the cents it spells.
Written(neg, whole, cents, sep) ==
    [text    |-> (IF neg THEN <<"-">> ELSE <<>>) \o Decimal(whole) \o <<sep>>
                 \o TwoDigits(cents),
     numeric |-> TRUE,
     cents   |-> IF neg THEN 0 - (100 * whole + cents) ELSE 100 * whole + cents]

\* Amounts with a thousands separator, with a trailing currency sign and
\* without decimals.
ExampleAmounts ==
    {[text |-> <<"1", ".", "2", "3", "4", ",", "5", "6">>, numeric |-> TRUE,
      cents |-> 123456],
     [text |-> <<"1", "2", "3", "4", ",", "5", "0">>, numeric |-> TRUE,
      cents |-> 123450],
     [text |-> <<"-", "4", "2", ".", "0", "0">>, numeric |-> TRUE,
      cents |-> -4200],
     [text |-> <<"1", ".", "1", "9", "0", ",", "0", "0", " ", "€">>,
      numeric |-> TRUE, cents |-> 119000],
     [text |-> <<"1", "5", "0", "0">>, numeric |-> TRUE, cents |-> 150000]}

\* Strings whose cleaned form is no number.
NonNumeric ==
    {[text |-> t, numeric |-> FALSE, cents |-> 0] :
       t \in {<<>>, <<"a", "b", "c">>, <<"n", "/", "a">>, EUR,
              <<"1", ".", "2", ".", "3">>, <<"1", "2", ",", "3", "4", "5">>,
              <<"1", "2", "-">>}}

AmountStrings ==
    {Written(neg, whole, cents, sep) :
       neg \in BOOLEAN, whole \in 0..MaxWhole, cents \in 0..99, sep \in {".", ","}}
    \cup ExampleAmounts \cup NonNumeric

InitParse ==
    /\ paIn \in AmountStrings
    /\ paOut = Nil
    /\ IdleCompletion /\ IdleAmounts /\ IdleReconcile /\ IdleBatch

\* The call parseAmount(amountStr).
Parse ==
    /\ paOut = Nil
    /\ paOut' = parseAmount(paIn.text)
    /\ UNCHANGED paIn
    /\ UNCHANGED <<varsCompletion, varsAmounts, varsReconcile, varsBatch>>

NextParse == Parse
SpecParse == InitParse /\ [][NextParse]_vars

\* C22: for an amount written in plain or German format parseAmount
\* returns, without error, round(value * 100): the cents the string spells,
\* negative under a leading minus; for a string whose cleaned form is no
\* number it returns an error.
C22_AsClaimed ==
    paOut # Nil =>
        IF paIn.numeric THEN paOut.ok /\ paOut.val = paIn.cents
        ELSE ~paOut.ok

\* The date and amount keys ValidateInvoice can report, and whether the
\* response's value for the key fails to parse.
ParsedKeys == {"issue_date", "due_date", "net_amount", "gross_amount"}
Malformed(k) ==
    /\ response[ConfidenceFields[k]] # <<>>
    /\ IF k \in {"issue_date", "due_date"}
       THEN ~ParseISODate(response[ConfidenceFields[k]]).ok
       ELSE ~parseAmount(response[ConfidenceFields[k]]).ok

\* C24: when a date reported missing comes back as something that is no
\* YYYY-MM-DD date, or an amount reported missing as something that does
\* not parse, the merge leaves the field as it was and the confidence map
\* gets no entry for it; the merge does not fail: after a valid response the
\* completion returns an invoice unless the post-validation rejects it, and
\* in the returned invoice the field is the input's (an amount that is zero
\* may have been derived from the other two).
C24_MalformedLeftUnset ==
    Merged =>
        /\ ret.err \in {"", "validation"}
        /\ ret.err = "validation" => CompletedInvalid(MergedRecord)
        /\ \A missing \in {MissingFields(invoice, config.RequireAllFields)} :
              \A k \in ParsedKeys :
                  contains(missing, k) /\ Malformed(k)
                      => /\ MergedRecord[ConfidenceFields[k]] = invoice[ConfidenceFields[k]]
                         /\ ret.err = ""
                               => /\ k \notin DOMAIN ret.confidence
                                  /\ \/ ret.inv[ConfidenceFields[k]] = invoice[ConfidenceFields[k]]
                                     \/ /\ k \in {"net_amount", "gross_amount"}
                                        /\ invoice[ConfidenceFields[k]] = 0

\* The missing issue date came back in the German notation: an invoice is
\* returned, its issue date still unset and without a confidence entry.
C24_Witness ==
    /\ Merged
    /\ ret.err = ""
    /\ IsZero(invoice.IssueDate)
    /\ Malformed("issue_date")
    /\ IsZero(ret.inv.IssueDate)
    /\ "issue_date" \notin DOMAIN ret.confidence

C28_FailureAfterMerge ==
    /\ cpc = "done"
    /\ ret.err = "validation"
    /\ response # NoResponse

\* The keys ValidateInvoice has no statement for.
NeverMissing == {"vat_amount", "reference", "description"}

\* C29: ValidateInvoice never lists vat_amount, reference or description
\* as missing.  So in every invoice the completion returns, Reference and
\* Description are the input's; VATAmount differs from the input's only
\* when the input's was zero, and is then gross - net of the returned
\* invoice; and the confidence map has none of the three keys.
C29_NeverFromResponse ==
    /\ cpc # "idle" =>
          \A k \in NeverMissing :
              ~contains(MissingFields(invoice, config.RequireAllFields), k)
    /\ ReturnedInvoice =>
          /\ ret.inv.Reference = invoice.Reference
          /\ ret.inv.Description = invoice.Description
          /\ ret.inv.VATAmount # invoice.VATAmount =>
                /\ invoice.VATAmount = 0
                /\ ret.inv.VATAmount = ret.inv.GrossAmount - ret.inv.NetAmount
          /\ DOMAIN ret.confidence \cap NeverMissing = {}

\* The response offered a VAT amount to an invoice that had none: the VAT
\* amount returned is gross - net, not the amount of the response.
C29_Witness ==
    /\ MergedReturned
    /\ invoice.VATAmount = 0
    /\ response.VATAmount # <<>>
    /\ parseAmount(response.VATAmount).ok
    /\ ret.inv.VATAmount = ret.inv.GrossAmount - ret.inv.NetAmount
    /\ ret.inv.VATAmount # 0
    /\ ret.inv.VATAmount # parseAmount(response.VATAmount).val

\* The response offered a reference to an invoice that had none, and the
\* returned invoice has none.
C29_ReferenceOffered ==
    /\ MergedReturned
    /\ invoice.Reference = "" /\ response.Reference # ""
    /\ ret.inv.Reference = ""

(***************************************************************************)
(* Amount validation: ValidateAndReconcileAmounts and its stages.          *)
(* A percentage (float64 in the code) is the fraction num/den, den > 0;    *)
(* the comparisons of the code are made by cross-multiplication.  The      *)
(* only fraction the code compares with that is not a ratio of small       *)
(* integers is the tolerance 5.0, and (l-s)/l*100 evaluates to exactly 5.0 *)
(* in float64 when (l-s)/l is 1/20.                                        *)
(***************************************************************************)
Pct(num, den) == [num |-> num, den |-> den]
PctGreater(a, b) == a.num * b.den > b.num * a.den
PctAtMost(a, n) == a.num <= n * a.den

abs(x) == IF x < 0 THEN 0 - x ELSE x
maxInt64(a, b) == IF a > b THEN a ELSE b
minInt64(a, b) == IF a < b THEN a ELSE b

\* calculateDiscrepancy: math.Abs((larger-smaller)/larger) * 100.
calculateDiscrepancy(amount1, amount2) ==
    IF amount1 = 0 /\ amount2 = 0 THEN Pct(0, 1)
    ELSE IF amount1 = 0 \/ amount2 = 0 THEN Pct(100, 1)
    ELSE Pct((maxInt64(amount1, amount2) - minInt64(amount1, amount2)) * 100,
             abs(maxInt64(amount1, amount2)))

\* The warning strings, by what they report.  Amounts are kept in cents.
DiscrepancyWarning(amountType, documentAIAmount, chatGPTAmount, discrepancy) ==
    [kind |-> "discrepancy", type |-> amountType, documentAI |-> documentAIAmount,
     chatGPT |-> chatGPTAmount, pct |-> discrepancy]
CalculationWarning(net, vat, calculated, gross, difference) ==
    [kind |-> "calculation", net |-> net, vat |-> vat, calculated |-> calculated,
     gross |-> gross, difference |-> difference]
CalculatedWarning(what) == [kind |-> "calculated", type |-> what]

\* The result after the comparison branch of selectBestAmount.
Compared(amountType, documentAIAmount, chatGPTAmount, documentAI, chatGPT, result, discrepancy) ==
    IF PctAtMost(discrepancy, 5)
    THEN [amount |-> documentAIAmount,
          result |-> [result EXCEPT !.MaxDiscrepancy =
                         IF PctGreater(discrepancy, @) THEN discrepancy ELSE @]]
    ELSE [amount |-> IF documentAI.Confidence >= chatGPT.Confidence
                     THEN documentAIAmount ELSE chatGPTAmount,
          result |-> [result EXCEPT
                         !.MaxDiscrepancy =
                             IF PctGreater(discrepancy, @) THEN discrepancy ELSE @,
                         !.Warnings = Append(@, DiscrepancyWarning(amountType,
                                         documentAIAmount, chatGPTAmount, discrepancy)),
                         !.HasDiscrepancy = TRUE]]

\* selectBestAmount: the returned amount and the result it leaves.
selectBestAmount(amountType, documentAIAmount, chatGPTAmount, documentAI, chatGPT, result) ==
    IF documentAIAmount > 0 /\ chatGPTAmount > 0
    THEN The({Compared(amountType, documentAIAmount, chatGPTAmount, documentAI,
                       chatGPT, result, d) :
                d \in {calculateDiscrepancy(documentAIAmount, chatGPTAmount)}})
    ELSE IF documentAIAmount # 0 THEN [amount |-> documentAIAmount, result |-> result]
    ELSE IF chatGPTAmount # 0 THEN [amount |-> chatGPTAmount, result |-> result]
    ELSE [amount |-> 0, result |-> result]

\* A cross-validation whose tolerance is one cent too strict.
crossValidateAmountsStrict(result) ==
    IF /\ result.FinalAmounts.NetAmount > 0
       /\ result.FinalAmounts.VATAmount > 0
       /\ result.FinalAmounts.GrossAmount > 0
       /\ abs(result.FinalAmounts.NetAmount + result.FinalAmounts.VATAmount
              - result.FinalAmounts.GrossAmount) >= 2
    THEN [result EXCEPT
            !.Warnings = Append(@, CalculationWarning(
                result.FinalAmounts.NetAmount, result.FinalAmounts.VATAmount,
                result.FinalAmounts.NetAmount + result.FinalAmounts.VATAmount,
                result.FinalAmounts.GrossAmount,
                abs(result.FinalAmounts.NetAmount + result.FinalAmounts.VATAmount
                    - result.FinalAmounts.GrossAmount))),
            !.HasDiscrepancy = TRUE]
    ELSE result

\* The number of amounts crossValidateAmounts counts.
nonZeroCount(inv) ==
      (IF inv.NetAmount > 0 THEN 1 ELSE 0)
    + (IF inv.VATAmount > 0 THEN 1 ELSE 0)
    + (IF inv.GrossAmount > 0 THEN 1 ELSE 0)

\* crossValidateAmounts: the result it leaves.
crossValidateAmounts(result) ==
    IF nonZeroCount(result.FinalAmounts) < 2 THEN result
    ELSE IF /\ result.FinalAmounts.NetAmount > 0
            /\ result.FinalAmounts.VATAmount > 0
            /\ result.FinalAmounts.GrossAmount > 0
            /\ abs(result.FinalAmounts.NetAmount + result.FinalAmounts.VATAmount
                   - result.FinalAmounts.GrossAmount) > 2
    THEN [result EXCEPT
            !.Warnings = Append(@, CalculationWarning(
                result.FinalAmounts.NetAmount, result.FinalAmounts.VATAmount,
                result.FinalAmounts.NetAmount + result.FinalAmounts.VATAmount,
                result.FinalAmounts.GrossAmount,
                abs(result.FinalAmounts.NetAmount + result.FinalAmounts.VATAmount
                    - result.FinalAmounts.GrossAmount))),
            !.HasDiscrepancy = TRUE]
    ELSE result

\* The three statements of calculateMissingAmounts of the amount validation,
\* in order.
FillGross(result) ==
    IF /\ result.FinalAmounts.NetAmount > 0 /\ result.FinalAmounts.VATAmount > 0
       /\ result.FinalAmounts.GrossAmount = 0
    THEN [result EXCEPT
            !.FinalAmounts.GrossAmount =
                result.FinalAmounts.NetAmount + result.FinalAmounts.VATAmount,
            !.Warnings = Append(@, CalculatedWarning("gross"))]
    ELSE result
FillNet(result) ==
    IF /\ result.FinalAmounts.GrossAmount > 0 /\ result.FinalAmounts.VATAmount > 0
       /\ result.FinalAmounts.NetAmount = 0
    THEN [result EXCEPT
            !.FinalAmounts.NetAmount =
                result.FinalAmounts.GrossAmount - result.FinalAmounts.VATAmount,
            !.Warnings = Append(@, CalculatedWarning("net"))]
    ELSE result
FillVAT(result) ==
    IF /\ result.FinalAmounts.GrossAmount > 0 /\ result.FinalAmounts.NetAmount > 0
       /\ result.FinalAmounts.VATAmount = 0
    THEN [result EXCEPT
            !.FinalAmounts.VATAmount =
                result.FinalAmounts.GrossAmount - result.FinalAmounts.NetAmount,
            !.Warnings = Append(@, CalculatedWarning("vat"))]
    ELSE result

calculateMissingAmounts(result) ==
    The({The({FillVAT(b) : b \in {FillNet(a)}}) : a \in {FillGross(result)}})

\* The three calls of selectBestAmount with the assignments of their
\* results, in the order net, vat, gross.
SelectNet(documentAI, chatGPT, result) ==
    The({[s.result EXCEPT !.FinalAmounts.NetAmount = s.amount] :
           s \in {selectBestAmount("net", documentAI.NetAmount, chatGPT.NetAmount,
                                   documentAI, chatGPT, result)}})
SelectVAT(documentAI, chatGPT, result) ==
    The({[s.result EXCEPT !.FinalAmounts.VATAmount = s.amount] :
           s \in {selectBestAmount("vat", documentAI.VATAmount, chatGPT.VATAmount,
                                   documentAI, chatGPT, result)}})
SelectGross(documentAI, chatGPT, result) ==
    The({[s.result EXCEPT !.FinalAmounts.GrossAmount = s.amount] :
           s \in {selectBestAmount("gross", documentAI.GrossAmount,
                                   chatGPT.GrossAmount, documentAI, chatGPT, result)}})

\* The fresh result of ValidateAndReconcileAmounts, with the copy of the
\* base invoice.
NewResult(inv) ==
    [FinalAmounts |-> inv, Warnings |-> <<>>, HasDiscrepancy |-> FALSE,
     MaxDiscrepancy |-> Pct(0, 1)]

\* ValidateAndReconcileAmounts: the result after the three selections, after
\* crossValidateAmounts, and as returned (after calculateMissingAmounts).
ValidateAndReconcileAmounts(documentAI, chatGPT, inv) ==
    The({The({[afterSelect |-> sel, afterCross |-> crs,
               final |-> calculateMissingAmounts(crs)] :
              crs \in {crossValidateAmounts(sel)}}) :
         sel \in {The({The({SelectGross(documentAI, chatGPT, v) :
                            v \in {SelectVAT(documentAI, chatGPT, n)}}) :
                       n \in {SelectNet(documentAI, chatGPT, NewResult(inv))}})}})

\* The amounts and confidences the two sources report in the model, in
\* cents: with 80 + 20 = 100 as the consistent triple, values within 5% of
\* it, at 5%, beyond 5%, credit-note (negative) values and absent (0) ones.
NetValues   == {-80, 0, 80, 84}
VATValues   == {0, 19, 20, 25}
GrossValues == {-100, 0, 95, 100, 102, 103}
Confidences == {80, 90}

AmountSources(name) ==
    [NetAmount : NetValues, VATAmount : VATValues, GrossAmount : GrossValues,
     Source : {name}, Confidence : Confidences]

\* The base invoice handed to the validation (its amounts are replaced).
BaseInvoice ==
    [InvoiceNumber |-> "INV-12345", Type |-> "PAYABLE", NetAmount |-> 1,
     VATAmount |-> 1, GrossAmount |-> 1, Currency |-> EUR]

InitAmounts ==
    /\ avIn \in [documentAI : AmountSources("document_ai"),
                 chatGPT : AmountSources("chatgpt"), invoice : {BaseInvoice}]
    /\ avOut = Nil
    /\ IdleCompletion /\ IdleReconcile /\ IdleBatch /\ IdleParse

\* One call of ValidateAndReconcileAmounts.
ValidateAndReconcile ==
    /\ avOut = Nil
    /\ avOut' = ValidateAndReconcileAmounts(avIn.documentAI, avIn.chatGPT, avIn.invoice)
    /\ UNCHANGED avIn
    /\ UNCHANGED <<varsCompletion, varsReconcile, varsBatch, varsParse>>

NextAmounts == ValidateAndReconcile

SpecAmounts == InitAmounts /\ [][NextAmounts]_vars

(***************************************************************************)
(* Properties of the amount validation.                                    *)
(***************************************************************************)
AmountTypes == {"net", "vat", "gross"}
AmountField(t) ==
    CASE t = "net" -> "NetAmount" [] t = "vat" -> "VATAmount" [] t = "gross" -> "GrossAmount"

\* The discrepancy warnings about amount type t among the warnings ws.
DiscrepancyWarnings(ws, t) ==
    {i \in 1..Len(ws) : ws[i].kind = "discrepancy" /\ ws[i].type = t}
\* The calculation-error warnings among the warnings ws.
CalculationWarnings(ws) == {i \in 1..Len(ws) : ws[i].kind = "calculation"}

Validated == avOut # Nil

\* C9 as claimed: for each of net, tax and gross, when both sources report a
\* non-zero value: with a discrepancy of at most 5% the document-extraction
\* value is taken and no warning is added for it; with a discrepancy above
\* 5% a warning is added, HasDiscrepancy is set and the value of the source
\* with the higher Confidence is taken, the document-extraction one on a tie.
C9_AsClaimed ==
    Validated =>
        \A t \in AmountTypes :
            LET d == avIn.documentAI[AmountField(t)]
                c == avIn.chatGPT[AmountField(t)]
                taken == avOut.afterSelect.FinalAmounts[AmountField(t)]
                warned == DiscrepancyWarnings(avOut.afterSelect.Warnings, t)
            IN  d # 0 /\ c # 0 =>
                    IF PctAtMost(calculateDiscrepancy(d, c), 5)
                    THEN taken = d /\ warned = {}
                    ELSE /\ Cardinality(warned) = 1
                         /\ avOut.afterSelect.HasDiscrepancy
                         /\ taken = IF avIn.documentAI.Confidence >= avIn.chatGPT.Confidence
                                    THEN d ELSE c

\* The gap between net + tax and gross of the arbitrated amounts.
CrossGap == abs(avOut.afterSelect.FinalAmounts.NetAmount
                + avOut.afterSelect.FinalAmounts.VATAmount
                - avOut.afterSelect.FinalAmounts.GrossAmount)

NonZeroAmounts(inv) ==
    Cardinality({t \in AmountTypes : inv[AmountField(t)] # 0})
PositiveAmounts(inv) ==
    Cardinality({t \in AmountTypes : inv[AmountField(t)] > 0})

\* What the cross-validation added: a warning and the flag, or nothing.
CrossFlagged ==
    /\ Len(avOut.afterCross.Warnings) = Len(avOut.afterSelect.Warnings) + 1
    /\ SubSeq(avOut.afterCross.Warnings, 1, Len(avOut.afterSelect.Warnings))
          = avOut.afterSelect.Warnings
    /\ avOut.afterCross.Warnings[Len(avOut.afterCross.Warnings)].kind = "calculation"
    /\ avOut.afterCross.HasDiscrepancy
CrossSilent ==
    /\ avOut.afterCross.Warnings = avOut.afterSelect.Warnings
    /\ avOut.afterCross.HasDiscrepancy = avOut.afterSelect.HasDiscrepancy
CrossAmountsKept ==
    avOut.afterCross.FinalAmounts = avOut.afterSelect.FinalAmounts

Synthesizable ==
    {t \in AmountTypes :
        /\ avOut.afterCross.FinalAmounts[AmountField(t)] = 0
        /\ \A u \in AmountTypes \ {t} :
              avOut.afterCross.FinalAmounts[AmountField(u)] # 0}

\* C11 as claimed: for each of net, tax and gross, when it is zero after the
\* arbitration and the other two are non-zero, the returned amounts satisfy
\* net + tax = gross and exactly one synthesis warning, the one of that
\* amount, is appended after the warnings of the cross-validation; an
\* amount that was non-zero is never changed.
C11_AsClaimed ==
    Validated =>
        /\ \A t \in Synthesizable :
              /\ avOut.final.FinalAmounts.NetAmount + avOut.final.FinalAmounts.VATAmount
                    = avOut.final.FinalAmounts.GrossAmount
              /\ avOut.final.Warnings
                    = Append(avOut.afterCross.Warnings, CalculatedWarning(t))
        /\ \A t \in AmountTypes :
              avOut.afterCross.FinalAmounts[AmountField(t)] # 0
                  => avOut.final.FinalAmounts[AmountField(t)]
                        = avOut.afterCross.FinalAmounts[AmountField(t)]

(***************************************************************************)
(* Reconciliation: ReconcileAll.                                           *)
(* A float64 amount in major units is an integer number of thousandths     *)
(* (100.40 is 100400), a time.Time date a day number.  Slice indices are   *)
(* the code's (from 0); element i of a slice s is s[i + 1].                *)
(***************************************************************************)
\* int64(math.Round(x * 100)): rounding to cents, halves away from zero.
RoundCents(x) == IF x >= 0 THEN (x + 5) \div 10 ELSE 0 - ((5 - x) \div 10)

\* int64(math.Round(math.Abs(x) * 0.01 * 100)): the tolerance in cents.
RoundTolerance(x) == (abs(x) + 500) \div 1000

\* filterTransactionsByCutoff.
filterTransactionsByCutoff(transactions, cutoffDate) ==
    SelectSeq(transactions, LAMBDA t : t.Date <= cutoffDate)

\* GetCounterParty.
GetCounterParty(ir) == IF ir.Type = "PAYABLE" THEN ir.Vendor ELSE ir.Customer

\* generateInvoiceID and generateTransactionID: the parts the format string
\* joins with "_" (an amount printed with %.2f is given in cents).
generateInvoiceID(inv) ==
    IF inv.InvoiceNumber # ""
    THEN <<inv.Type, inv.InvoiceNumber, inv.Date>>
    ELSE <<inv.Type, GetCounterParty(inv), inv.Date, RoundCents(inv.GrossAmount)>>
generateTransactionID(transaction) ==
    <<"TXN", transaction.Date, RoundCents(transaction.Amount), transaction.CounterParty>>

\* A test that compares the magnitudes and ignores the direction.
AmountMatchIgnoringSign(inv, transaction) ==
    [isAmountMatch |->
        abs(abs(RoundCents(transaction.Amount)) - abs(RoundCents(inv.GrossAmount)))
            <= RoundTolerance(inv.GrossAmount),
     amountDiff |->
        abs(abs(RoundCents(transaction.Amount)) - abs(RoundCents(inv.GrossAmount)))]

\* The direction and tolerance test of findCandidateTransactions on one
\* transaction: isAmountMatch and amountDiff.
AmountMatch(inv, transaction) ==
    IF inv.Type = "PAYABLE" /\ RoundCents(transaction.Amount) < 0
    THEN [isAmountMatch |->
             abs(RoundCents(transaction.Amount) + RoundCents(inv.GrossAmount))
                 <= RoundTolerance(inv.GrossAmount),
          amountDiff |->
             abs(RoundCents(transaction.Amount) + RoundCents(inv.GrossAmount))]
    ELSE IF inv.Type = "RECEIVABLE" /\ RoundCents(transaction.Amount) > 0
    THEN [isAmountMatch |->
             abs(RoundCents(transaction.Amount) - RoundCents(inv.GrossAmount))
                 <= RoundTolerance(inv.GrossAmount),
          amountDiff |->
             abs(RoundCents(transaction.Amount) - RoundCents(inv.GrossAmount))]
    ELSE [isAmountMatch |-> FALSE, amountDiff |-> 0]

\* dateScore in units of 1/36500.
DateScore(daysDiff) ==
    IF daysDiff > 30
    THEN maxInt64(3650, 36500 - 100 * (daysDiff - 30))
    ELSE 36500 - 365 * daysDiff

\* score = amountPrecision * 0.9 + dateScore * 0.1 as the fraction
\* num / (365000 * tolerance); with a tolerance of 0 the division 0/0 makes
\* amountPrecision, and the score, NaN.
Score(amountDiff, tolerance, daysDiff) ==
    IF tolerance = 0 THEN [nan |-> TRUE, num |-> 0]
    ELSE [nan |-> FALSE,
          num |-> 9 * 36500 * (IF tolerance - amountDiff < 0 THEN 0
                               ELSE tolerance - amountDiff)
                  + tolerance * DateScore(daysDiff)]

\* A less function that sorts by ascending score.
ScoreAscending(a, b) == ~a.nan /\ ~b.nan /\ a.num < b.num

\* candidates[i].Score > candidates[j].Score, for candidates of one invoice
\* (a comparison with NaN is false).
ScoreGreater(a, b) == ~a.nan /\ ~b.nan /\ a.num > b.num

\* A loop that does not skip the transactions already matched.
CandidateNotSkippingUsed(inv, transaction, i, usedIndices) ==
    AmountMatch(inv, transaction).isAmountMatch

\* Whether the loop of findCandidateTransactions appends transaction i.
Candidate(inv, transaction, i, usedIndices) ==
    i \notin usedIndices /\ AmountMatch(inv, transaction).isAmountMatch

\* The TransactionCandidate appended for transaction i.
TransactionCandidate(inv, transaction, i) ==
    [Transaction |-> transaction, OriginalIndex |-> i,
     Score |-> Score(AmountMatch(inv, transaction).amountDiff,
                     RoundTolerance(inv.GrossAmount),
                     abs(transaction.Date - inv.Date)),
     DaysDiff |-> abs(transaction.Date - inv.Date)]

\* The results sort.Slice may leave for the given candidates: every order
\* in which no element is less (has a greater score) than one before it.
\* The sort is not stable, so candidates of equal score come in any order.
RECURSIVE SortedOrders(_)
SortedOrders(S) ==
    IF S = {} THEN {<<>>}
    ELSE UNION {{<<c>> \o r : r \in SortedOrders(S \ {c})} :
                  c \in {x \in S : \A y \in S : ~ScoreGreater(y.Score, x.Score)}}

maxCandidates == 10

\* findCandidateTransactions: the slices it may return.
findCandidateTransactions(inv, transactions, usedIndices) ==
    {SubSeq(sorted, 1, minInt64(Len(sorted), maxCandidates)) :
       sorted \in SortedOrders(
           {TransactionCandidate(inv, transactions[i + 1], i) :
              i \in {j \in 0..(Len(transactions) - 1) :
                       Candidate(inv, transactions[j + 1], j, usedIndices)}})}

\* What the CreateChatCompletion call of matchInvoiceWithChatGPT can
\* produce for n candidates: an error, no choices, or a content: text that
\* is no JSON, or a JSON object (possibly inside a ``` fence) whose matched
\* and transaction_index keys are absent or present; the index ranges from
\* -1 to n, one past the last candidate.
MatchOutcomes(n) ==
    {[kind |-> "error"], [kind |-> "nochoices"],
     [kind |-> "content", form |-> "garbage"],
     [kind |-> "content", form |-> "fenced", matched |-> JBool(TRUE),
      index |-> JNum(0)]}
    \cup {[kind |-> "content", form |-> "json", matched |-> JBool(TRUE),
           index |-> x] : x \in {Absent} \cup {JNum(k) : k \in -1..n}}
    \cup {[kind |-> "content", form |-> "json", matched |-> m, index |-> x] :
            m \in {Absent, JBool(FALSE)}, x \in {Absent, JNum(0)}}

\* matchInvoiceWithChatGPT: (result, err).  The fence is stripped before
\* json.Unmarshal; a key that is absent leaves the zero value of its field.
matchInvoiceWithChatGPT(out) ==
    IF out.kind \in {"error", "nochoices"}
    THEN [err |-> TRUE, Matched |-> FALSE, TransactionIndex |-> 0]
    ELSE IF out.form = "garbage"
    THEN [err |-> FALSE, Matched |-> FALSE, TransactionIndex |-> 0]
    ELSE [err |-> FALSE,
          Matched |-> IF out.matched = Absent THEN FALSE ELSE out.matched.v,
          TransactionIndex |-> IF out.index = Absent THEN 0 ELSE out.index.v]

\* MatchedInvoices[invoiceID] = transactionID.
MapPut(m, k, v) == [x \in DOMAIN m \cup {k} |-> IF x = k THEN v ELSE m[x]]

\* The invoices and transactions of the model's inputs.
InvoiceRows ==
    {[InvoiceNumber |-> "RE-1", Date |-> 10, Vendor |-> "Acme", Customer |-> "",
      GrossAmount |-> 100000, Type |-> "PAYABLE"],
     [InvoiceNumber |-> "RE-2", Date |-> 20, Vendor |-> "Acme", Customer |-> "",
      GrossAmount |-> 100400, Type |-> "PAYABLE"],
     [InvoiceNumber |-> "RE-3", Date |-> 10, Vendor |-> "", Customer |-> "Kunde",
      GrossAmount |-> 100000, Type |-> "RECEIVABLE"],
     [InvoiceNumber |-> "", Date |-> 10, Vendor |-> "Acme", Customer |-> "",
      GrossAmount |-> 100, Type |-> "PAYABLE"]}

BankTransactions ==
    {[Date |-> 11, Amount |-> -100000, CounterParty |-> "Acme"],
     [Date |-> 12, Amount |-> -101004, CounterParty |-> "Acme"],
     [Date |-> 50, Amount |-> -100000, CounterParty |-> "Acme"],
     [Date |-> 70, Amount |-> -100000, CounterParty |-> "Acme"],
     [Date |-> 12, Amount |-> 100000, CounterParty |-> "Kunde"],
     [Date |-> 11, Amount |-> -100, CounterParty |-> "Acme"]}

CutoffDate == 60

\* The sequences over S of length at most n.
SeqsUpTo(S, n) == UNION {[1..k -> S] : k \in 0..n}

\* The lists handed to ReconcileAll hold at most this many rows.
MaxInvoices == 2
MaxTransactions == 2

\* filteredTransactions of the running call.
filteredTransactions ==
    filterTransactionsByCutoff(rcIn.transactions, rcIn.cutoffDate)

\* The state when the loop over the invoices starts.
InitReconcile ==
    /\ rcIn \in [invoices : SeqsUpTo(InvoiceRows, MaxInvoices),
                 transactions : SeqsUpTo(BankTransactions, MaxTransactions),
                 cutoffDate : {CutoffDate}]
    /\ rcPc = "loop"
    /\ rcI = 0
    /\ usedTransactionIndices = {}
    /\ rcResult = [MatchedInvoices |-> EmptyMap, UnmatchedInvoices |-> <<>>,
                   UnmatchedTransactions |-> <<>>,
                   TotalInvoices |-> Len(rcIn.invoices),
                   TotalTransactions |-> Len(rcIn.transactions),
                   MatchedCount |-> 0]
    /\ rcLog = <<>>
    /\ IdleCompletion /\ IdleAmounts /\ IdleBatch /\ IdleParse

\* An iteration that leaves the invoice unmatched and yet marks the first
\* transaction of its shortlist as used.
LeaveUnmatchedConsuming(inv, candidates, verdict) ==
    /\ rcResult' = [rcResult EXCEPT !.UnmatchedInvoices = Append(@, inv)]
    /\ rcLog' = Append(rcLog, [candidates |-> candidates, verdict |-> verdict,
                               actualIndex |-> -1])
    /\ usedTransactionIndices' =
          usedTransactionIndices
              \cup {candidates[c].OriginalIndex : c \in {x \in 1..Len(candidates) : x = 1}}

\* An iteration that drops the invoice: it is neither matched nor listed.
LeaveUnmatchedUnlisted(inv, candidates, verdict) ==
    /\ rcLog' = Append(rcLog, [candidates |-> candidates, verdict |-> verdict,
                               actualIndex |-> -1])
    /\ UNCHANGED <<rcResult, usedTransactionIndices>>

\* The iteration leaves the invoice unmatched.  The verdict tells why: no
\* candidates, an error of matchInvoiceWithChatGPT (the call failed or
\* returned no choices), a response that is no JSON, or a response that
\* names no usable match.
LeaveUnmatched(inv, candidates, verdict) ==
    /\ rcResult' = [rcResult EXCEPT !.UnmatchedInvoices = Append(@, inv)]
    /\ rcLog' = Append(rcLog, [candidates |-> candidates, verdict |-> verdict,
                               actualIndex |-> -1])
    /\ UNCHANGED usedTransactionIndices

\* The iteration accepts the match with candidates[TransactionIndex].
AcceptMatch(inv, candidates, c) ==
    /\ rcResult' = [rcResult EXCEPT
                      !.MatchedInvoices =
                          MapPut(@, generateInvoiceID(inv),
                                 generateTransactionID(c.Transaction)),
                      !.MatchedCount = @ + 1]
    /\ usedTransactionIndices' = usedTransactionIndices \cup {c.OriginalIndex}
    /\ rcLog' = Append(rcLog, [candidates |-> candidates, verdict |-> "accepted",
                               actualIndex |-> c.OriginalIndex])

\* An iteration that takes the first candidate whatever index is returned.
MatchWithFirst(inv, candidates, out) ==
    \E matchResult \in {matchInvoiceWithChatGPT(out)} :
      IF matchResult.err
      THEN LeaveUnmatched(inv, candidates, "error")
      ELSE IF /\ matchResult.Matched
              /\ matchResult.TransactionIndex >= 0
              /\ matchResult.TransactionIndex < Len(candidates)
      THEN AcceptMatch(inv, candidates, candidates[1])
      ELSE LeaveUnmatched(inv, candidates,
                          IF out.form = "garbage" THEN "unparseable" ELSE "rejected")

\* The iteration from the call of matchInvoiceWithChatGPT on, for the
\* shortlist candidates and what CreateChatCompletion produces.
Match(inv, candidates, out) ==
    \E matchResult \in {matchInvoiceWithChatGPT(out)} :
      IF matchResult.err
      THEN LeaveUnmatched(inv, candidates, "error")
      ELSE IF /\ matchResult.Matched
              /\ matchResult.TransactionIndex >= 0
              /\ matchResult.TransactionIndex < Len(candidates)
      THEN AcceptMatch(inv, candidates, candidates[matchResult.TransactionIndex + 1])
      ELSE LeaveUnmatched(inv, candidates,
                          IF out.form = "garbage" THEN "unparseable" ELSE "rejected")

\* One iteration of the loop of ReconcileAll over the invoices.
ProcessInvoice ==
    /\ rcPc = "loop"
    /\ rcI < Len(rcIn.invoices)
    /\ \E candidates \in findCandidateTransactions(
                             rcIn.invoices[rcI + 1], filteredTransactions,
                             usedTransactionIndices) :
         IF Len(candidates) = 0
         THEN LeaveUnmatched(rcIn.invoices[rcI + 1], candidates, "no_candidates")
         ELSE \E out \in MatchOutcomes(Len(candidates)) :
                Match(rcIn.invoices[rcI + 1], candidates, out)
    /\ rcI' = rcI + 1
    /\ UNCHANGED <<rcIn, rcPc>>
    /\ UNCHANGED <<varsCompletion, varsAmounts, varsBatch, varsParse>>

\* A closing loop that reports every transaction, used or not.
UnmatchedTransactionsAll(transactions, usedIndices) == transactions

\* The transactions the closing loop of ReconcileAll appends.
UnmatchedTransactions(transactions, usedIndices) ==
    [k \in 1..Cardinality({i \in 0..(Len(transactions) - 1) : i \notin usedIndices}) |->
        transactions[1 + CHOOSE i \in 0..(Len(transactions) - 1) :
            /\ i \notin usedIndices
            /\ Cardinality({j \in 0..(i - 1) : j \notin usedIndices}) = k - 1]]

\* After the last invoice: the unmatched transactions are collected and
\* the result is returned.
Finish ==
    /\ rcPc = "loop"
    /\ rcI = Len(rcIn.invoices)
    /\ rcResult' = [rcResult EXCEPT !.UnmatchedTransactions =
                       UnmatchedTransactions(filteredTransactions,
                                             usedTransactionIndices)]
    /\ rcPc' = "done"
    /\ UNCHANGED <<rcIn, rcI, usedTransactionIndices, rcLog>>
    /\ UNCHANGED <<varsCompletion, varsAmounts, varsBatch, varsParse>>

NextReconcile ==
    \/ ProcessInvoice
    \/ Finish

SpecReconcile == InitReconcile /\ [][NextReconcile]_vars

(***************************************************************************)
(* ReconcileAll on one invoice and a long list of transactions, so that    *)
(* more transactions qualify than the shortlist keeps.                     *)
(***************************************************************************)
\* The i-th transaction of the long lists: outgoing payments of 100.00 or
\* 100.50 dated within a week of day 10, in an order that is not the order
\* of their scores; some have equal scores.
LongTransaction(i) ==
    [Date |-> 3 + ((i * 7) % 15),
     Amount |-> IF i % 4 = 0 THEN -100500 ELSE -100000,
     CounterParty |-> "Acme"]

\* The long lists have MinLongList to MaxLongList transactions.
MinLongList == 9
MaxLongList == 12

LongList(n) == [i \in 1..n |-> LongTransaction(i)]

InitShortlist ==
    /\ rcIn \in [invoices : [1..1 -> InvoiceRows],
                 transactions : {LongList(n) : n \in MinLongList..MaxLongList},
                 cutoffDate : {CutoffDate}]
    /\ rcPc = "loop"
    /\ rcI = 0
    /\ usedTransactionIndices = {}
    /\ rcResult = [MatchedInvoices |-> EmptyMap, UnmatchedInvoices |-> <<>>,
                   UnmatchedTransactions |-> <<>>,
                   TotalInvoices |-> Len(rcIn.invoices),
                   TotalTransactions |-> Len(rcIn.transactions),
                   MatchedCount |-> 0]
    /\ rcLog = <<>>
    /\ IdleCompletion /\ IdleAmounts /\ IdleBatch /\ IdleParse

SpecShortlist == InitShortlist /\ [][NextReconcile]_vars

(***************************************************************************)
(* Properties of the reconciliation.                                       *)
(***************************************************************************)
\* The positions (in filteredTransactions) consumed by the matches
\* accepted for the first n invoices.
ConsumedBefore(n) ==
    {rcLog[j].actualIndex : j \in {x \in 1..(n - 1) : rcLog[x].verdict = "accepted"}}

\* C7: each transaction is consumed by at most one invoice.  A transaction
\* consumed by the accepted match of an earlier invoice is in the shortlist
\* of no later invoice, and the transactions returned as unmatched are
\* exactly the filtered ones that no match consumed, in their order.
C7_ConsumedOnce ==
    /\ \A k \in 1..Len(rcLog) :
          /\ \A c \in 1..Len(rcLog[k].candidates) :
                rcLog[k].candidates[c].OriginalIndex \notin ConsumedBefore(k)
          /\ rcLog[k].verdict = "accepted"
                => rcLog[k].actualIndex \notin ConsumedBefore(k)
    /\ usedTransactionIndices = ConsumedBefore(Len(rcLog) + 1)
    /\ rcPc = "done" =>
          /\ Len(rcResult.UnmatchedTransactions)
                = Len(filteredTransactions) - Cardinality(usedTransactionIndices)
          /\ \E pos \in [1..Len(rcResult.UnmatchedTransactions)
                            -> 0..(Len(filteredTransactions) - 1)] :
                /\ \A a, b \in DOMAIN pos : a < b => pos[a] < pos[b]
                /\ \A a \in DOMAIN pos :
                      /\ pos[a] \notin usedTransactionIndices
                      /\ rcResult.UnmatchedTransactions[a]
                            = filteredTransactions[pos[a] + 1]

\* An earlier invoice consumed a transaction that also fits a later invoice,
\* whose shortlist holds another transaction; the call has returned.
C7_Witness ==
    /\ rcPc = "done"
    /\ Len(rcLog) = 2
    /\ rcLog[1].verdict = "accepted"
    /\ Len(rcLog[2].candidates) >= 1
    /\ Candidate(rcIn.invoices[2], filteredTransactions[rcLog[1].actualIndex + 1],
                 rcLog[1].actualIndex, {})
    /\ Len(rcResult.UnmatchedTransactions) >= 1

\* The verdicts of a classifier that failed: the call failed or returned no
\* choices, or its response could not be parsed.
ClassifierFailures == {"error", "unparseable"}

\* C14: an iteration in which the classifier fails appends the invoice to
\* the unmatched invoices, consumes no transaction, records no match and
\* goes on to the next invoice; ReconcileAll returns only after every
\* invoice has had its iteration, whatever the classifier did.
C14_ClassifierFailure ==
    [][/\ (/\ Len(rcLog') = Len(rcLog) + 1
           /\ rcLog'[Len(rcLog')].verdict \in ClassifierFailures)
          => /\ usedTransactionIndices' = usedTransactionIndices
             /\ rcResult'.UnmatchedInvoices
                   = Append(rcResult.UnmatchedInvoices, rcIn.invoices[rcI + 1])
             /\ rcResult'.MatchedInvoices = rcResult.MatchedInvoices
             /\ rcResult'.MatchedCount = rcResult.MatchedCount
             /\ rcI' = rcI + 1
             /\ rcPc' = "loop"
       /\ rcPc' = "done"
          => /\ Len(rcLog') = Len(rcIn.invoices)
             /\ Len(rcResult'.UnmatchedInvoices) + rcResult'.MatchedCount
                   = Len(rcIn.invoices)]_vars

\* The classifier failed for the first invoice; the second invoice was then
\* matched to a transaction of the first one's shortlist.
C14_Witness ==
    /\ rcPc = "done"
    /\ Len(rcLog) = 2
    /\ rcLog[1].verdict \in ClassifierFailures
    /\ rcLog[2].verdict = "accepted"
    /\ \E c \in 1..Len(rcLog[1].candidates) :
          rcLog[1].candidates[c].OriginalIndex = rcLog[2].actualIndex
    /\ rcResult.UnmatchedInvoices = <<rcIn.invoices[1]>>

\* Whether the transaction at position p (from 1) of the input list passes
\* the cutoff filter, and its index (from 0) in the filtered list.
Kept(p) == rcIn.transactions[p].Date <= rcIn.cutoffDate
FilteredIndex(p) == Cardinality({q \in 1..(p - 1) : Kept(q)})

\* C15 as claimed: when ReconcileAll has returned, every transaction of the
\* input list that no match consumed is among the unmatched transactions.
C15_AsClaimed ==
    rcPc = "done" =>
        \A p \in 1..Len(rcIn.transactions) :
            ~(Kept(p) /\ FilteredIndex(p) \in usedTransactionIndices)
                => \E a \in 1..Len(rcResult.UnmatchedTransactions) :
                      rcResult.UnmatchedTransactions[a] = rcIn.transactions[p]

\* C15, amended: when ReconcileAll has returned, the unmatched transactions
\* are the transactions dated on or before the cutoff that no match
\* consumed, each once and in the order of the input; a transaction dated
\* after the cutoff is not reported.
C15_UnconsumedReported ==
    rcPc = "done" =>
        /\ Len(rcResult.UnmatchedTransactions)
              = Cardinality({p \in 1..Len(rcIn.transactions) :
                               Kept(p) /\ FilteredIndex(p) \notin usedTransactionIndices})
        /\ \A p \in 1..Len(rcIn.transactions) :
              Kept(p) /\ FilteredIndex(p) \notin usedTransactionIndices
                  => rcResult.UnmatchedTransactions[
                         1 + Cardinality({q \in 1..(p - 1) :
                                Kept(q) /\ FilteredIndex(q) \notin usedTransactionIndices})]
                       = rcIn.transactions[p]
        /\ \A a \in 1..Len(rcResult.UnmatchedTransactions) :
              rcResult.UnmatchedTransactions[a].Date <= rcIn.cutoffDate

\* A run over two transactions, one of them dated after the cutoff, in
\* which an invoice had the other one in its shortlist and was not matched:
\* that one alone is reported.
C15_Witness ==
    /\ rcPc = "done"
    /\ Len(rcIn.transactions) = 2
    /\ \E p \in 1..2 : ~Kept(p)
    /\ usedTransactionIndices = {}
    /\ \E k \in 1..Len(rcLog) : Len(rcLog[k].candidates) = 1
    /\ Len(rcResult.UnmatchedTransactions) = 1

\* The signed amount in cents an invoice expects of its bank transaction:
\* a payment out for a PAYABLE, a payment in for a RECEIVABLE.
ExpectedCents(inv) ==
    IF inv.Type = "PAYABLE" THEN 0 - RoundCents(inv.GrossAmount)
    ELSE RoundCents(inv.GrossAmount)

\* C16: every transaction in the shortlist of an invoice is one of the
\* transactions dated on or before the cutoff, was not consumed by an
\* earlier match, has the sign of the invoice's Type (negative cents for
\* PAYABLE, positive for RECEIVABLE) and differs from the expected signed
\* amount by at most 1% of the gross amount, in whole cents; no incoming
\* transaction is in the shortlist of a PAYABLE invoice.
C16_ShortlistConditions ==
    \A filtered \in {filteredTransactions} : \A k \in 1..Len(rcLog) :
        \A consumed \in {ConsumedBefore(k)} : \A c \in 1..Len(rcLog[k].candidates) :
            \A cand \in {rcLog[k].candidates[c]} :
                /\ cand.OriginalIndex \in 0..(Len(filtered) - 1)
                /\ cand.Transaction = filtered[cand.OriginalIndex + 1]
                /\ cand.OriginalIndex \notin consumed
                /\ cand.Transaction.Date <= rcIn.cutoffDate
                /\ rcIn.invoices[k].Type \in {"PAYABLE", "RECEIVABLE"}
                /\ rcIn.invoices[k].Type = "PAYABLE"
                      => RoundCents(cand.Transaction.Amount) < 0
                /\ rcIn.invoices[k].Type = "RECEIVABLE"
                      => RoundCents(cand.Transaction.Amount) > 0
                /\ abs(RoundCents(cand.Transaction.Amount)
                       - ExpectedCents(rcIn.invoices[k]))
                      <= RoundTolerance(rcIn.invoices[k].GrossAmount)
                /\ ~(rcIn.invoices[k].Type = "PAYABLE" /\ cand.Transaction.Amount > 0)

\* A PAYABLE invoice met an outgoing and an incoming transaction of its
\* amount: its shortlist holds the outgoing one only.
C16_Witness ==
    /\ Len(rcLog) >= 1
    /\ rcIn.invoices[1].Type = "PAYABLE"
    /\ Len(filteredTransactions) = 2
    /\ \E p \in 1..2 :
          filteredTransactions[p].Amount = rcIn.invoices[1].GrossAmount
    /\ \E p \in 1..2 :
          filteredTransactions[p].Amount = 0 - rcIn.invoices[1].GrossAmount
    /\ Len(rcLog[1].candidates) = 1
    /\ rcLog[1].candidates[1].Transaction.Amount < 0

\* The indices (in filteredTransactions) of the transactions that qualify
\* for the shortlist of invoice k.
Qualifying(k) ==
    {i \in 0..(Len(filteredTransactions) - 1) :
        Candidate(rcIn.invoices[k], filteredTransactions[i + 1], i, ConsumedBefore(k))}

\* Score x is higher than score y.
HigherScore(x, y) == ~x.nan /\ ~y.nan /\ x.num > y.num

C25_MatchByShortlistIndex ==
    [][rcPc = "loop" /\ rcI < Len(rcIn.invoices) /\ rcI' = rcI + 1 =>
         \A inv \in {rcIn.invoices[rcI + 1]} :
         \A candidates \in {c \in findCandidateTransactions(
                                      inv, filteredTransactions,
                                      usedTransactionIndices) : Len(c) > 0} :
         \A out \in MatchOutcomes(Len(candidates)) :
         \A r \in {matchInvoiceWithChatGPT(out)} :
             Match(inv, candidates, out) =>
                 IF ~r.err /\ r.Matched /\ r.TransactionIndex >= 0
                           /\ r.TransactionIndex < Len(candidates)
                 THEN /\ usedTransactionIndices' = usedTransactionIndices
                            \cup {candidates[r.TransactionIndex + 1].OriginalIndex}
                      /\ rcResult'.MatchedCount = rcResult.MatchedCount + 1
                      /\ rcResult'.MatchedInvoices[generateInvoiceID(inv)]
                            = generateTransactionID(
                                  filteredTransactions[
                                      candidates[r.TransactionIndex + 1].OriginalIndex + 1])
                      /\ rcResult'.UnmatchedInvoices = rcResult.UnmatchedInvoices
                 ELSE /\ usedTransactionIndices' = usedTransactionIndices
                      /\ rcResult'.MatchedCount = rcResult.MatchedCount
                      /\ rcResult'.MatchedInvoices = rcResult.MatchedInvoices
                      /\ rcResult'.UnmatchedInvoices
                            = Append(rcResult.UnmatchedInvoices, inv)]_vars

\* The classifier chose the second entry of a shortlist of two, which is
\* the first transaction of the list: that transaction alone is consumed.
C25_Witness ==
    /\ Len(rcLog) >= 1
    /\ rcLog[1].verdict = "accepted"
    /\ Len(rcLog[1].candidates) = 2
    /\ rcLog[1].candidates[1].OriginalIndex = 1
    /\ rcLog[1].candidates[2].OriginalIndex = 0
    /\ rcLog[1].actualIndex = 0
    /\ usedTransactionIndices = {0}

\* C26 as claimed: when ReconcileAll has returned, MatchedCount is the
\* number of entries of MatchedInvoices.
C26_AsClaimed ==
    rcPc = "done" => rcResult.MatchedCount = Cardinality(DOMAIN rcResult.MatchedInvoices)

\* The invoices of the input whose iteration did not accept a match, in
\* the order of the input.
NotAccepted(k) ==
    {i \in 1..k : rcLog[i].verdict # "accepted"}
InInputOrder(k) ==
    [n \in 1..Cardinality(NotAccepted(k)) |->
        rcIn.invoices[CHOOSE i \in NotAccepted(k) :
                          Cardinality({j \in NotAccepted(k) : j < i}) = n - 1]]

\* C27: after every iteration of ReconcileAll, and so when it returns,
\* each invoice handled so far is counted exactly once: MatchedCount plus
\* the number of unmatched invoices is the number of invoices handled,
\* TotalInvoices is the number of input invoices, and UnmatchedInvoices
\* holds the invoices that were not matched in the order of the input.
C27_AccountedOnce ==
    rcPc # "idle" =>
        /\ rcResult.MatchedCount + Len(rcResult.UnmatchedInvoices) = rcI
        /\ rcResult.TotalInvoices = Len(rcIn.invoices)
        /\ rcResult.UnmatchedInvoices = InInputOrder(rcI)
        /\ rcPc = "done" =>
              rcResult.MatchedCount + Len(rcResult.UnmatchedInvoices)
                  = rcResult.TotalInvoices

\* ReconcileAll returned for two invoices: the first was left unmatched,
\* the second was matched.
C27_Witness ==
    /\ rcPc = "done"
    /\ Len(rcIn.invoices) = 2
    /\ rcLog[1].verdict # "accepted"
    /\ rcLog[2].verdict = "accepted"
    /\ rcResult.MatchedCount = 1
    /\ rcResult.UnmatchedInvoices = <<rcIn.invoices[1]>>

(***************************************************************************)
(* The batch worker pool: processPDFsInParallel.                           *)
(* A file path is the sequence of its elements ("in/a.pdf" is              *)
(* <<"in", "a.pdf">>).  Workers are numbered from 1 (workerID + 1); slice  *)
(* indices are the code's (from 0).                                        *)
(***************************************************************************)
\* filepath.Base of a path with at least one element.
Base(path) == path[Len(path)]

\* The paths of the model's batches: pdfFiles is a prefix of this list.
\* Two files have the same base name in different folders and one path is
\* listed twice.
FilePool ==
    << <<"in", "a.pdf">>, <<"in", "sub", "a.pdf">>, <<"in", "b.pdf">>,
       <<"c.pdf">>, <<"in", "b.pdf">> >>

\* A batch has at most MaxFiles files and the pool at most MaxWorkers
\* workers.
MaxFiles == 2
MaxWorkers == 2

\* The zero value of BatchResult (path: the file processSinglePDF was
\* handed, none yet).
ZeroResult ==
    [Filename |-> "", Status |-> "", Index |-> 0, HasError |-> FALSE, path |-> <<>>]

\* What processSinglePDF can return for a path: an error (the file cannot be
\* opened, the booking generation fails), a success, or a warning.
processSinglePDF(pdfPath) ==
    {[Filename |-> "", Status |-> "error", Index |-> 0, HasError |-> TRUE,
      path |-> pdfPath],
     [Filename |-> "", Status |-> "success", Index |-> 0, HasError |-> FALSE,
      path |-> pdfPath],
     [Filename |-> "", Status |-> "warning", Index |-> 0, HasError |-> FALSE,
      path |-> pdfPath]}

NoJob == [FilePath |-> <<>>, Index |-> -1]
WorkerIds == 1..bIn.numWorkers

\* The state when processPDFsInParallel has made its channel and slice.
InitBatch ==
    /\ bIn \in [pdfFiles : {SubSeq(FilePool, 1, n) : n \in 0..MaxFiles},
                numWorkers : 1..MaxWorkers]
    /\ bMain = "spawn"
    /\ bNext = 0
    /\ jobs = <<>>
    /\ jobsClosed = FALSE
    /\ results = [i \in 1..Len(bIn.pdfFiles) |-> ZeroResult]
    /\ processedCount = 0
    /\ mu = 0
    /\ workers = [w \in 1..bIn.numWorkers |->
                     [pc |-> "unborn", job |-> NoJob, currentCount |-> 0]]
    /\ writes = [i \in 1..Len(bIn.pdfFiles) |-> <<>>]
    /\ bRet = <<>>
    /\ IdleCompletion /\ IdleAmounts /\ IdleReconcile /\ IdleParse

\* go func(workerID int) {...}(w): the calling goroutine starts a worker.
Spawn ==
    /\ bMain = "spawn"
    /\ workers' = [workers EXCEPT ![bNext + 1].pc = "recv"]
    /\ IF bNext + 1 < bIn.numWorkers
       THEN bNext' = bNext + 1 /\ bMain' = bMain
       ELSE bNext' = 0 /\ bMain' = "send"
    /\ UNCHANGED <<bIn, jobs, jobsClosed, results, processedCount, mu, writes, bRet>>
    /\ UNCHANGED <<varsCompletion, varsAmounts, varsReconcile, varsParse>>

\* A channel that buffers one job.
JobsCapacityOne(pdfFiles) == 1

\* The capacity of jobs: make(chan WorkerJob, len(pdfFiles)).
JobsCapacity(pdfFiles) == Len(pdfFiles)

\* jobs <- WorkerJob{FilePath: pdfFile, Index: i}; the send waits while
\* the buffer of the channel is full.
Send ==
    /\ bMain = "send"
    /\ bNext < Len(bIn.pdfFiles)
    /\ Len(jobs) < JobsCapacity(bIn.pdfFiles)
    /\ jobs' = Append(jobs, [FilePath |-> bIn.pdfFiles[bNext + 1], Index |-> bNext])
    /\ bNext' = bNext + 1
    /\ UNCHANGED <<bIn, bMain, jobsClosed, results, processedCount, mu, workers,
                   writes, bRet>>
    /\ UNCHANGED <<varsCompletion, varsAmounts, varsReconcile, varsParse>>

\* close(jobs)
Close ==
    /\ bMain = "send"
    /\ bNext = Len(bIn.pdfFiles)
    /\ jobsClosed' = TRUE
    /\ bMain' = "wait"
    /\ UNCHANGED <<bIn, bNext, jobs, results, processedCount, mu, workers,
                   writes, bRet>>
    /\ UNCHANGED <<varsCompletion, varsAmounts, varsReconcile, varsParse>>

\* wg.Wait() returns when every worker has called wg.Done; return results.
Return ==
    /\ bMain = "wait"
    /\ \A w \in WorkerIds : workers[w].pc = "exit"
    /\ bRet' = results
    /\ bMain' = "done"
    /\ UNCHANGED <<bIn, bNext, jobs, jobsClosed, results, processedCount, mu,
                   workers, writes>>
    /\ UNCHANGED <<varsCompletion, varsAmounts, varsReconcile, varsParse>>

\* for job := range jobs: the worker receives the next job.
Receive(w) ==
    /\ workers[w].pc = "recv"
    /\ jobs # <<>>
    /\ workers' = [workers EXCEPT ![w].pc = "process", ![w].job = Head(jobs)]
    /\ jobs' = Tail(jobs)
    /\ UNCHANGED <<bIn, bMain, bNext, jobsClosed, results, processedCount, mu,
                   writes, bRet>>
    /\ UNCHANGED <<varsCompletion, varsAmounts, varsReconcile, varsParse>>

\* The range loop ends on the closed, empty channel; defer wg.Done().
Exit(w) ==
    /\ workers[w].pc = "recv"
    /\ jobs = <<>> /\ jobsClosed
    /\ workers' = [workers EXCEPT ![w].pc = "exit"]
    /\ UNCHANGED <<bIn, bMain, bNext, jobs, jobsClosed, results, processedCount,
                   mu, writes, bRet>>
    /\ UNCHANGED <<varsCompletion, varsAmounts, varsReconcile, varsParse>>

\* Results stored in the order of completion.
ResultSlotByCompletion(job) == processedCount

\* The slot of results a worker stores the result of job in.
ResultSlot(job) == job.Index

\* A worker that stops at the first file that fails.
ProcessStoppingOnError(w) ==
    /\ workers[w].pc = "process"
    /\ \E result \in processSinglePDF(workers[w].job.FilePath) :
         /\ results' = [results EXCEPT ![workers[w].job.Index + 1] =
                           [result EXCEPT !.Index = workers[w].job.Index,
                                          !.Filename = Base(workers[w].job.FilePath)]]
         /\ workers' = [workers EXCEPT ![w].pc =
                           IF result.HasError THEN "exit" ELSE "lock_count"]
    /\ writes' = [writes EXCEPT ![workers[w].job.Index + 1] = Append(@, w)]
    /\ UNCHANGED <<bIn, bMain, bNext, jobs, jobsClosed, processedCount, mu, bRet>>
    /\ UNCHANGED <<varsCompletion, varsAmounts, varsReconcile, varsParse>>

\* processSinglePDF on the job's file, result.Index and result.Filename, and
\* results[job.Index] = result.
Process(w) ==
    /\ workers[w].pc = "process"
    /\ \E result \in processSinglePDF(workers[w].job.FilePath) :
         results' = [results EXCEPT ![ResultSlot(workers[w].job) + 1] =
                        [result EXCEPT !.Index = workers[w].job.Index,
                                       !.Filename = Base(workers[w].job.FilePath)]]
    /\ writes' = [writes EXCEPT ![ResultSlot(workers[w].job) + 1] = Append(@, w)]
    /\ workers' = [workers EXCEPT ![w].pc = "lock_count"]
    /\ UNCHANGED <<bIn, bMain, bNext, jobs, jobsClosed, processedCount, mu, bRet>>
    /\ UNCHANGED <<varsCompletion, varsAmounts, varsReconcile, varsParse>>

\* mu.Lock(), before the count and before the progress line.
Lock(w) ==
    /\ workers[w].pc \in {"lock_count", "lock_print"}
    /\ mu = 0
    /\ mu' = w
    /\ workers' = [workers EXCEPT ![w].pc =
                      IF @ = "lock_count" THEN "count" ELSE "print"]
    /\ UNCHANGED <<bIn, bMain, bNext, jobs, jobsClosed, results, processedCount,
                   writes, bRet>>
    /\ UNCHANGED <<varsCompletion, varsAmounts, varsReconcile, varsParse>>

\* processedCount++; currentCount := processedCount; mu.Unlock()
Count(w) ==
    /\ workers[w].pc = "count"
    /\ processedCount' = processedCount + 1
    /\ workers' = [workers EXCEPT ![w].pc = "lock_print",
                                  ![w].currentCount = processedCount + 1]
    /\ mu' = 0
    /\ UNCHANGED <<bIn, bMain, bNext, jobs, jobsClosed, results, writes, bRet>>
    /\ UNCHANGED <<varsCompletion, varsAmounts, varsReconcile, varsParse>>

\* The progress line, mu.Unlock(), and back to the head of the loop.
PrintProgress(w) ==
    /\ workers[w].pc = "print"
    /\ mu' = 0
    /\ workers' = [workers EXCEPT ![w].pc = "recv", ![w].job = NoJob]
    /\ UNCHANGED <<bIn, bMain, bNext, jobs, jobsClosed, results, processedCount,
                   writes, bRet>>
    /\ UNCHANGED <<varsCompletion, varsAmounts, varsReconcile, varsParse>>

NextBatch ==
    \/ Spawn
    \/ Send
    \/ Close
    \/ Return
    \/ \E w \in WorkerIds : Receive(w)
    \/ \E w \in WorkerIds : Exit(w)
    \/ \E w \in WorkerIds : Process(w)
    \/ \E w \in WorkerIds : Lock(w)
    \/ \E w \in WorkerIds : Count(w)
    \/ \E w \in WorkerIds : PrintProgress(w)

SpecBatch == InitBatch /\ [][NextBatch]_vars

\* The steps of the calling goroutine and of worker w.
MainStep == Spawn \/ Send \/ Close \/ Return
WorkerStep(w) ==
    \/ Receive(w) \/ Exit(w) \/ Process(w)
    \/ Lock(w) \/ Count(w) \/ PrintProgress(w)

\* The scheduler runs every goroutine that can take a step, and every
\* call of processSinglePDF returns.
BatchFairness ==
    /\ WF_vars(MainStep)
    /\ \A w \in 1..MaxWorkers : WF_vars(w \in WorkerIds /\ WorkerStep(w))

SpecBatchFair == InitBatch /\ [][NextBatch]_vars /\ BatchFairness

(***************************************************************************)
(* Properties of the batch worker pool.                                    *)
(***************************************************************************)
\* The workers that hold a job (received and not yet back at the loop head).
Holding(i) == {w \in WorkerIds : workers[w].job.Index = i}

\* C8: for every number of workers and every interleaving, no job is held
\* by two workers, every slot of results is written at most once, and the
\* returned slice has, at every index i, the one result written for
\* pdfFiles[i]: Index = i, Filename = the base name of pdfFiles[i].
C8_ResultsInOrder ==
    /\ \A i \in 0..(Len(bIn.pdfFiles) - 1) :
          /\ Cardinality(Holding(i)) <= 1
          /\ Len(writes[i + 1]) <= 1
          /\ Holding(i) # {} => \A k \in 1..Len(jobs) : jobs[k].Index # i
    /\ bMain = "done" =>
          /\ Len(bRet) = Len(bIn.pdfFiles)
          /\ \A i \in 0..(Len(bIn.pdfFiles) - 1) :
                /\ Len(writes[i + 1]) = 1
                /\ bRet[i + 1].Index = i
                /\ bRet[i + 1].path = bIn.pdfFiles[i + 1]
                /\ bRet[i + 1].Filename = Base(bIn.pdfFiles[i + 1])
                /\ bRet[i + 1].Status \in {"error", "success", "warning"}

\* A batch returned in which the second file was finished first, by another
\* worker than the first; the two files have the same base name.
C8_Witness ==
    /\ bMain = "done"
    /\ Len(bIn.pdfFiles) >= 2
    /\ writes[1] # writes[2]
    /\ \E w \in WorkerIds : workers[w].currentCount = 1 /\ writes[2] = <<w>>
    /\ bRet[2].Filename = bRet[1].Filename
    /\ bRet[2].path # bRet[1].path

\* C23: a file whose processing fails gets, at its own index, a result
\* with Status "error" and its Error set, and only such a result has an
\* Error; the batch goes on: the worker takes the next job, and when
\* processPDFsInParallel returns every file has been processed once and has
\* its result, whatever the other files' results are.
C23_FailureIsolated ==
    /\ \A i \in 0..(Len(bIn.pdfFiles) - 1) :
          writes[i + 1] # <<>>
              => /\ results[i + 1].HasError = (results[i + 1].Status = "error")
                 /\ results[i + 1].Index = i
                 /\ results[i + 1].path = bIn.pdfFiles[i + 1]
    /\ \A w \in WorkerIds :
          workers[w].pc = "exit" => jobs = <<>> /\ jobsClosed /\ workers[w].job = NoJob
    /\ bMain = "done" =>
          /\ Len(bRet) = Len(bIn.pdfFiles)
          /\ bRet = results
          /\ \A i \in 1..Len(bIn.pdfFiles) : Len(writes[i]) = 1

\* One worker, two files: the first file failed, the second was processed
\* after it and succeeded.
C23_Witness ==
    /\ bMain = "done"
    /\ bIn.numWorkers = 1
    /\ Len(bIn.pdfFiles) = 2
    /\ bRet[1].Status = "error" /\ bRet[1].HasError /\ bRet[1].Index = 0
    /\ bRet[2].Status = "success" /\ ~bRet[2].HasError /\ bRet[2].Index = 1

\* C30: for every number of files and of workers (at least one),
\* when every goroutine that can run is run and every call of
\* processSinglePDF returns, processPDFsInParallel returns.  The send of a
\* job never waits; a worker has exited only after the queue was closed and
\* drained, and once the queue is closed and drained every worker exits;
\* on return the processed-count counter is the number of files.
C30_Terminates ==
    /\ [](bMain = "send" /\ bNext < Len(bIn.pdfFiles) => ENABLED Send)
    /\ [](\A w \in WorkerIds : workers[w].pc = "exit" => jobsClosed /\ jobs = <<>>)
    /\ (jobsClosed /\ jobs = <<>>) ~> (\A w \in WorkerIds : workers[w].pc = "exit")
    /\ <>(bMain = "done")
    /\ [](bMain = "done" => processedCount = Len(bIn.pdfFiles))

\* Two workers, two files: both jobs were queued before either was
\* received, each worker processed one, and the call has returned with the
\* counter at two.
C30_Witness ==
    /\ bMain = "done"
    /\ bIn.numWorkers = 2
    /\ Len(bIn.pdfFiles) = 2
    /\ processedCount = 2
    /\ writes[1] # writes[2]
    /\ \A w \in WorkerIds : workers[w].pc = "exit"

\* The queue holds every file of the batch: the calling goroutine sent
\* them all before a worker received one.
C30_QueueFull ==
    /\ Len(bIn.pdfFiles) = 2
    /\ Len(jobs) = 2
    /\ ~jobsClosed

====
